---------------------------- MODULE Spec2Model ----------------------------
(***************************************************************************)
(* A model of the NURBS curve engine of LNLib                              *)
(* (src/src/LNLib/Geometry/Curve/NurbsCurve.cpp).                          *)
(*                                                                         *)
(* A caller owns an input curve (degree, knotVector, controlPoints) and a  *)
(* pair of output buffers, empty or holding what an earlier use left; an   *)
(* action is one call of a curve operation on them.  Reals are exact       *)
(* rationals <<numerator, denominator>>; the vectors of the code (0-based  *)
(* std::vector) are sequences read and written through At and Put.         *)
(***************************************************************************)
EXTENDS Integers, Sequences, FiniteSets, TLC

(***************************************************************************)
(* Bounds of the model.                                                    *)
(***************************************************************************)
MaxDegree == 2      \* degrees 1..MaxDegree
MaxInterior == 2    \* at most this many interior knots (with multiplicity)
MaxKnot == 2        \* the domain is [0, MaxKnot], interior knots are integers
MaxTimes == 2       \* the "times" argument ranges over 1..MaxTimes
MaxInsert == 2      \* RefineKnotVector inserts at most this many knots
NumShapes == 2      \* families of control points
StaleLen == 12      \* length of the buffers an earlier use left behind
MaxEighths == 9     \* arcs end at 0..MaxEighths eighths of a turn
MaxData == 4        \* a fit goes through at most this many points

(***************************************************************************)
(* Exact rational arithmetic standing for double.  <<1, 0>> stands for a   *)
(* non-finite double (the result of a division by zero); it propagates     *)
(* through arithmetic and compares false with everything.                  *)
(***************************************************************************)
RECURSIVE Gcd(_, _)
Gcd(a, b) == IF b = 0 THEN a ELSE Gcd(b, a % b)

NaN == <<1, 0>>

IsNaN(a) == a[2] = 0

\* n/d divided through by g
Lowest(n, d, g) == <<n \div g, d \div g>>

\* n/d in lowest terms, for d >= 0; a zero denominator is non-finite
Norm(n, d) == IF d = 0 THEN NaN ELSE Lowest(n, d, Gcd(d, n % d))

R(n) == <<n, 1>>

\* a non-finite operand has the denominator 0, and so has the result
RAdd(a, b) == Norm(a[1] * b[2] + b[1] * a[2], a[2] * b[2])

RSub(a, b) == Norm(a[1] * b[2] - b[1] * a[2], a[2] * b[2])

RMul(a, b) == Norm(a[1] * b[1], a[2] * b[2])

RDiv(a, b) == IF IsNaN(b) THEN NaN
              ELSE IF b[1] < 0 THEN Norm(-(a[1] * b[2]), -(a[2] * b[1]))
              ELSE Norm(a[1] * b[2], a[2] * b[1])

RLess(a, b) == ~IsNaN(a) /\ ~IsNaN(b) /\ a[1] * b[2] < b[1] * a[2]

RLeq(a, b) == ~IsNaN(a) /\ ~IsNaN(b) /\ a[1] * b[2] <= b[1] * a[2]

\* MathUtils::IsAlmostEqualTo(value1, value2): |value1 - value2| below
\* Constants::DoubleEpsilon.  Two distinct rationals of the model differ by
\* far more than the epsilon, so the test is equality of the values.
IsAlmostEqualTo(a, b) == ~IsNaN(a) /\ ~IsNaN(b) /\ a = b

\* MathUtils::IsLessThanOrEqual(value1, value2)
IsLessThanOrEqual(a, b) == RLeq(a, b)

\* MathUtils::Binomial(number, i)
RECURSIVE Binomial(_, _)
Binomial(n, i) ==
    IF i < 0 \/ i > n THEN 0
    ELSE IF i = 0 \/ i = n THEN 1
    ELSE Binomial(n - 1, i - 1) + Binomial(n - 1, i)

Min(a, b) == IF a < b THEN a ELSE b

Max(a, b) == IF a > b THEN a ELSE b

\* a function over 1..n held as the sequence of its values
Tuple(f) == SubSeq(f, 1, Len(f))

(***************************************************************************)
(* XYZW: a weighted control point <<wx, wy, wz, w>>; XYZ: <<x, y, z>>.     *)
(***************************************************************************)
ZeroXYZW == <<R(0), R(0), R(0), R(0)>>

\* XYZW::operator+
PAdd(a, b) == Tuple([c \in 1..4 |-> RAdd(a[c], b[c])])

\* XYZW::operator-
PSub(a, b) == Tuple([c \in 1..4 |-> RSub(a[c], b[c])])

\* double * XYZW
PScale(k, a) == Tuple([c \in 1..4 |-> RMul(k, a[c])])

\* XYZW / double
PDiv(a, k) == Tuple([c \in 1..4 |-> RDiv(a[c], k)])

\* alpha * a + (1.0 - alpha) * b
Blend(alpha, a, b) == PAdd(PScale(alpha, a), PScale(RSub(R(1), alpha), b))

\* XYZW::ToXYZ(true): the Euclidean point (x/w, y/w, z/w)
ToXYZ(a) == <<RDiv(a[1], a[4]), RDiv(a[2], a[4]), RDiv(a[3], a[4])>>

\* XYZW::Distance(another) <= tol for the data-dependent tolerance of
\* ValidationUtils::ComputeCurveModifyTolerance (at most 1e-6): two points of
\* the model are that close only when they are equal.
WithinTolerance(a, b) == \A c \in 1..4 : IsAlmostEqualTo(a[c], b[c])

(***************************************************************************)
(* std::vector, 0-based, as a sequence.  An index out of range is          *)
(* undefined behaviour: the operations report it in their ub field.        *)
(***************************************************************************)
InRange(v, i) == 0 <= i /\ i < Len(v)

\* v[i]; an out-of-range read yields the filler (the caller records ub)
At(v, i, filler) == IF InRange(v, i) THEN v[i + 1] ELSE filler

\* v[i] = x; an out-of-range write leaves the vector as it is
Put(v, i, x) == IF InRange(v, i) THEN [v EXCEPT ![i + 1] = x] ELSE v

\* v.resize(n): keeps the first n elements, appends value-initialised ones
Resize(v, n, filler) ==
    IF n <= 0 THEN <<>>
    ELSE Tuple([i \in 1..n |-> IF i <= Len(v) THEN v[i] ELSE filler])

\* std::vector<T>(n)
Fresh(n, filler) == Resize(<<>>, n, filler)

\* n copies of x
Copies(n, x) == Fresh(n, x)

(***************************************************************************)
(* Polynomials, BsplineCurve and ValidationUtils: the collaborators of the *)
(* curve engine.                                                           *)
(***************************************************************************)
\* ValidationUtils::IsValidKnotVector: a nondecreasing sequence
IsValidKnotVector(U) == \A i \in 1..(Len(U) - 1) : RLeq(U[i], U[i + 1])

\* ValidationUtils::IsValidNurbs: m = n + p + 1
IsValidNurbs(p, nKnots, nPoints) == nKnots = nPoints + p + 1

\* the VALIDATE_ARGUMENT lines shared by the curve operations
ValidCurveArguments(p, U, P) ==
    /\ p > 0
    /\ Len(U) > 0
    /\ IsValidKnotVector(U)
    /\ Len(P) > 0
    /\ IsValidNurbs(p, Len(U), Len(P))

\* VALIDATE_ARGUMENT_RANGE(paramT, knotVector[0], knotVector[size - 1])
InParamRange(U, t) == RLeq(U[1], t) /\ RLeq(t, U[Len(U)])

\* Polynomials::GetKnotSpanIndex: the index k in [p, n] with
\* U[k] <= t < U[k+1]; n for t = U[n+1]
GetKnotSpanIndex(p, U, t) ==
    LET n == Len(U) - p - 2
        below == {k \in p..n : RLeq(At(U, k, R(0)), t)}
    IN  IF RLeq(At(U, n + 1, R(0)), t) THEN n
        ELSE IF below = {} THEN p
        ELSE CHOOSE k \in below : \A j \in below : j <= k

\* Polynomials::GetKnotMultiplicity: the number of knots equal to t
GetKnotMultiplicity(U, t) ==
    Cardinality({i \in 1..Len(U) : IsAlmostEqualTo(U[i], t)})

\* The B-spline basis function N_{i,q}(t) by the Cox-de Boor recurrence, for
\* t in the span k (a quotient with a zero denominator counts as zero)
RECURSIVE BasisFunction(_, _, _, _, _)
BasisFunction(i, q, k, U, t) ==
    IF q = 0 THEN (IF i = k THEN R(1) ELSE R(0))
    ELSE LET ui   == At(U, i, R(0))
             uiq  == At(U, i + q, R(0))
             ui1  == At(U, i + 1, R(0))
             uiq1 == At(U, i + q + 1, R(0))
             lft  == IF uiq = ui THEN R(0)
                     ELSE RMul(RDiv(RSub(t, ui), RSub(uiq, ui)),
                               BasisFunction(i, q - 1, k, U, t))
             rgt  == IF uiq1 = ui1 THEN R(0)
                     ELSE RMul(RDiv(RSub(uiq1, t), RSub(uiq1, ui1)),
                               BasisFunction(i + 1, q - 1, k, U, t))
         IN  RAdd(lft, rgt)

RECURSIVE SumBasis(_, _, _, _, _, _)
SumBasis(i, p, k, U, t, P) ==
    IF i > k THEN ZeroXYZW
    ELSE PAdd(PScale(BasisFunction(i, p, k, U, t), At(P, i, ZeroXYZW)),
              SumBasis(i + 1, p, k, U, t, P))

\* BsplineCurve::GetPointOnCurve: the sum of N_{i,p}(t) * P[i] over the span
BsplinePoint(p, U, t, P) ==
    LET k == GetKnotSpanIndex(p, U, t)
    IN  SumBasis(k - p, p, k, U, t, P)

(***************************************************************************)
(* NurbsCurve::GetPointOnCurve                                             *)
(***************************************************************************)
Thrown == <<"throw">>

GetPointOnCurve(p, U, t, P) ==
    IF ~ValidCurveArguments(p, U, P) THEN Thrown
    ELSE IF ~InParamRange(U, t) THEN Thrown
    ELSE ToXYZ(BsplinePoint(p, U, t, P))

(***************************************************************************)
(* Loops that copy a range: for (i = lo; i <= hi; i++) dst[i+shift] = src[i]*)
(***************************************************************************)
CopyRange(dst, src, lo, hi, shift) ==
    Tuple([j \in 1..Len(dst) |->
             IF (j - 1 - shift) \in lo..hi /\ InRange(src, j - 1 - shift)
             THEN src[j - shift] ELSE dst[j]])

CopyRangeOut(dst, src, lo, hi, shift) ==
    \E i \in lo..hi : ~InRange(src, i) \/ ~InRange(dst, i + shift)

\* for (i = lo; i <= hi; i++) dst[i] = x
FillRange(dst, lo, hi, x) ==
    Tuple([j \in 1..Len(dst) |-> IF (j - 1) \in lo..hi THEN x ELSE dst[j]])

FillRangeOut(dst, lo, hi) == \E i \in lo..hi : ~InRange(dst, i)

(***************************************************************************)
(* NurbsCurve::InsertKnot                                                  *)
(***************************************************************************)
\* a mutant of InsertTimes: the clamp to degree - multiplicity is missing
\* if (originMultiplicity + times > degree) times = degree - originMultiplicity
InsertTimes(p, s, times) == IF s + times > p THEN p - s ELSE times

\* a mutant of InsertAlpha: the upper knot is taken one place too low
InsertAlphaLowKnot(U, u, L, i, k) ==
    RDiv(RSub(u, At(U, L + i, R(0))),
         RSub(At(U, i + k, R(0)), At(U, L + i, R(0))))

\* alpha = (u - U[L+i]) / (U[i+k+1] - U[L+i])
InsertAlpha(U, u, L, i, k) ==
    RDiv(RSub(u, At(U, L + i, R(0))),
         RSub(At(U, i + k + 1, R(0)), At(U, L + i, R(0))))

\* the inner loop of a sweep: for (i = 0; i <= last; i++)
\*   temp[i] = alpha * temp[i+1] + (1.0 - alpha) * temp[i]
RECURSIVE InsertSweep(_, _, _, _, _, _, _)
InsertSweep(st, i, last, U, u, L, k) ==
    IF i > last THEN st
    ELSE LET alpha == InsertAlpha(U, u, L, i, k)
             out   == \/ ~InRange(U, L + i) \/ ~InRange(U, i + k + 1)
                      \/ ~InRange(st.temp, i) \/ ~InRange(st.temp, i + 1)
             t2    == Put(st.temp, i,
                          Blend(alpha, At(st.temp, i + 1, ZeroXYZW),
                                       At(st.temp, i, ZeroXYZW)))
         IN  InsertSweep([st EXCEPT !.temp = t2, !.ub = st.ub \/ out],
                         i + 1, last, U, u, L, k)

\* Q[L] = temp[0]; Q[k + times - j - s] = temp[p - j - s]; after the sweep
\* left sw (hi = k + times - j - s, last = p - j - s)
InsertStored(sw, L, hi, last) ==
    [sw EXCEPT
       !.Q = Put(Put(sw.Q, L, At(sw.temp, 0, ZeroXYZW)),
                 hi, At(sw.temp, last, ZeroXYZW)),
       !.L = L,
       !.ub = \/ sw.ub
              \/ ~InRange(sw.Q, L) \/ ~InRange(sw.temp, 0)
              \/ ~InRange(sw.Q, hi) \/ ~InRange(sw.temp, last)]

\* for (j = 1; j <= times; j++) { L = k - p + j; sweep; Q[L] = temp[0];
\*   Q[k + times - j - s] = temp[p - j - s]; }
RECURSIVE InsertLoop(_, _, _, _, _, _, _, _)
InsertLoop(st, j, times, p, U, u, k, s) ==
    IF j > times THEN st
    ELSE InsertLoop(
             InsertStored(InsertSweep(st, 0, p - j - s, U, u, k - p + j, k),
                          k - p + j, k + times - j - s, p - j - s),
             j + 1, times, p, U, u, k, s)

\* for (i = L + 1; i < k - s; i++) Q[i] = temp[i - L]
InsertRest(lp, newU, k, s) ==
    [U |-> newU,
     P |-> CopyRange(lp.Q, lp.temp, 1, k - s - 1 - lp.L, lp.L),
     ub |-> lp.ub \/ CopyRangeOut(lp.Q, lp.temp, 1, k - s - 1 - lp.L, lp.L)]

\* The result: [U, P: the output buffers, ub: an index was out of range]
InsertKnot(p, U, P, u, timesArg, outU, outP) ==
    LET k     == GetKnotSpanIndex(p, U, u)
        s     == GetKnotMultiplicity(U, u)
        times == InsertTimes(p, s, timesArg)
        nU    == Len(U)
        nP    == Len(P)
        u0    == Resize(outU, nU + times, R(0))
        u1    == CopyRange(u0, U, 0, k, 0)
        u2    == FillRange(u1, k + 1, k + times, u)
        u3    == CopyRange(u2, U, k + 1, nU - 1, times)
        ubU   == \/ CopyRangeOut(u0, U, 0, k, 0)
                 \/ FillRangeOut(u1, k + 1, k + times)
                 \/ CopyRangeOut(u2, U, k + 1, nU - 1, times)
        q0    == Resize(outP, nP + times, ZeroXYZW)
        q1    == CopyRange(q0, P, 0, k - p, 0)
        \* i is an int compared with size(): a negative i ends the loop
        from  == IF k - s < 0 THEN nP ELSE k - s
        q2    == CopyRange(q1, P, from, nP - 1, times)
        ubQ   == \/ CopyRangeOut(q0, P, 0, k - p, 0)
                 \/ CopyRangeOut(q1, P, from, nP - 1, times)
        t0    == Fresh(p - s + 1, ZeroXYZW)
        t1    == CopyRange(t0, P, k - p, k - s, -(k - p))
        ubT   == CopyRangeOut(t0, P, k - p, k - s, -(k - p))
    IN  InsertRest(InsertLoop([Q |-> q2, temp |-> t1, L |-> 0,
                               ub |-> ubU \/ ubQ \/ ubT],
                              1, times, p, U, u, k, s),
                   u3, k, s)

(***************************************************************************)
(* NurbsCurve::GetPointOnCurveByCornerCut                                  *)
(***************************************************************************)
\* a mutant of CornerCutAlpha: the lower knot ignores the sweep number j
CornerCutAlphaNoSweep(U, t, k, p, j, i) ==
    RDiv(RSub(t, At(U, k - p + i, R(0))),
         RSub(At(U, i + k + 1, R(0)), At(U, k - p + i, R(0))))

\* alpha = (t - U[k-p+j+i]) / (U[i+k+1] - U[k-p+j+i])
CornerCutAlpha(U, t, k, p, j, i) ==
    RDiv(RSub(t, At(U, k - p + j + i, R(0))),
         RSub(At(U, i + k + 1, R(0)), At(U, k - p + j + i, R(0))))

\* for (i = 0; i <= times - j; i++)
\*   temp[i] = alpha * temp[i+1] + (1.0 - alpha) * temp[i]
RECURSIVE CornerCutSweep(_, _, _, _, _, _, _, _)
CornerCutSweep(st, i, times, U, t, k, p, j) ==
    IF i > times - j THEN st
    ELSE LET alpha == CornerCutAlpha(U, t, k, p, j, i)
             out   == \/ ~InRange(U, k - p + j + i) \/ ~InRange(U, i + k + 1)
                      \/ ~InRange(st.temp, i) \/ ~InRange(st.temp, i + 1)
             t2    == Put(st.temp, i,
                          Blend(alpha, At(st.temp, i + 1, ZeroXYZW),
                                       At(st.temp, i, ZeroXYZW)))
         IN  CornerCutSweep([temp |-> t2, ub |-> st.ub \/ out],
                            i + 1, times, U, t, k, p, j)

\* for (j = 1; j <= times; j++) sweep
RECURSIVE CornerCutLoop(_, _, _, _, _, _, _)
CornerCutLoop(st, j, times, U, t, k, p) ==
    IF j > times THEN st
    ELSE CornerCutLoop(CornerCutSweep(st, 0, times, U, t, k, p, j),
                       j + 1, times, U, t, k, p)

\* The result: [point: the XYZ returned, ub]
GetPointOnCurveByCornerCut(p, U, t, P) ==
    LET n == Len(P) - 1
    IN  IF IsAlmostEqualTo(t, At(U, 0, R(0)))
        THEN [point |-> ToXYZ(At(P, 0, ZeroXYZW)), ub |-> FALSE]
        ELSE IF IsAlmostEqualTo(t, At(U, n + p + 1, R(0)))
        THEN [point |-> ToXYZ(At(P, n, ZeroXYZW)), ub |-> FALSE]
        ELSE LET k     == GetKnotSpanIndex(p, U, t)
                 s     == GetKnotMultiplicity(U, t)
                 times == p - s
                 t0    == Fresh(times + 1, ZeroXYZW)
                 t1    == CopyRange(t0, P, k - p, k - p + times, -(k - p))
                 ubT   == CopyRangeOut(t0, P, k - p, k - p + times, -(k - p))
                 lp    == CornerCutLoop([temp |-> t1, ub |-> ubT],
                                        1, times, U, t, k, p)
             IN  [point |-> ToXYZ(At(lp.temp, 0, ZeroXYZW)),
                  ub |-> lp.ub \/ ~InRange(lp.temp, 0)]

(***************************************************************************)
(* NurbsCurve::RefineKnotVector                                            *)
(***************************************************************************)
\* while (X[j] <= U[i] && i > a) { Q[k-p-1] = P[i-p-1]; Ubar[k] = U[i];
\*                                 k = k - 1; i = i - 1; }
RECURSIVE RefineMerge(_, _, _, _, _, _)
RefineMerge(st, xj, U, P, a, p) ==
    IF ~(RLeq(xj, At(U, st.i, R(0))) /\ st.i > a) THEN st
    ELSE LET out == \/ ~InRange(U, st.i) \/ ~InRange(P, st.i - p - 1)
                    \/ ~InRange(st.Q, st.k - p - 1) \/ ~InRange(st.Ubar, st.k)
         IN  RefineMerge(
                 [st EXCEPT !.Q = Put(st.Q, st.k - p - 1,
                                      At(P, st.i - p - 1, ZeroXYZW)),
                            !.Ubar = Put(st.Ubar, st.k, At(U, st.i, R(0))),
                            !.k = st.k - 1,
                            !.i = st.i - 1,
                            !.ub = st.ub \/ out],
                 xj, U, P, a, p)

\* a mutant of RefineAlpha: the lower knot is taken one place too high
RefineAlphaHighKnot(Ubar, U, xj, k, i, p, l) ==
    RDiv(RSub(At(Ubar, k + l, R(0)), xj),
         RSub(At(Ubar, k + l, R(0)), At(U, i - p + l + 1, R(0))))

\* alpha = (Ubar[k+l] - X[j]) / (Ubar[k+l] - U[i-p+l])
RefineAlpha(Ubar, U, xj, k, i, p, l) ==
    RDiv(RSub(At(Ubar, k + l, R(0)), xj),
         RSub(At(Ubar, k + l, R(0)), At(U, i - p + l, R(0))))

\* for (l = 1; l <= p; l++) { ind = k - p + l; alpha = Ubar[k+l] - X[j];
\*   if (alpha is zero) Q[ind-1] = Q[ind];
\*   else Q[ind-1] = alpha * Q[ind-1] + (1.0 - alpha) * Q[ind]; }
RECURSIVE RefineBlend(_, _, _, _, _)
RefineBlend(st, l, xj, U, p) ==
    IF l > p THEN st
    ELSE LET ind  == st.k - p + l
             diff == RSub(At(st.Ubar, st.k + l, R(0)), xj)
             zero == IsAlmostEqualTo(diff, R(0))
             out  == \/ ~InRange(st.Ubar, st.k + l)
                     \/ ~InRange(st.Q, ind) \/ ~InRange(st.Q, ind - 1)
                     \/ (~zero /\ ~InRange(U, st.i - p + l))
             x    == IF zero THEN At(st.Q, ind, ZeroXYZW)
                     ELSE Blend(RefineAlpha(st.Ubar, U, xj, st.k, st.i, p, l),
                                At(st.Q, ind - 1, ZeroXYZW),
                                At(st.Q, ind, ZeroXYZW))
         IN  RefineBlend([st EXCEPT !.Q = Put(st.Q, ind - 1, x),
                                    !.ub = st.ub \/ out],
                         l + 1, xj, U, p)

\* for (j = r; j >= 0; j--) { merge; Q[k-p-1] = Q[k-p]; blend;
\*                            Ubar[k] = X[j]; k = k - 1; }
RECURSIVE RefineLoop(_, _, _, _, _, _, _)
RefineLoop(st, j, X, U, P, a, p) ==
    IF j < 0 THEN st
    ELSE LET xj  == At(X, j, R(0))
             mg  == RefineMerge(st, xj, U, P, a, p)
             out == ~InRange(mg.Q, mg.k - p - 1) \/ ~InRange(mg.Q, mg.k - p)
             s1  == [mg EXCEPT !.Q = Put(mg.Q, mg.k - p - 1,
                                         At(mg.Q, mg.k - p, ZeroXYZW)),
                               !.ub = mg.ub \/ out]
             bl  == RefineBlend(s1, 1, xj, U, p)
             s2  == [bl EXCEPT !.Ubar = Put(bl.Ubar, bl.k, xj),
                               !.k = bl.k - 1,
                               !.ub = bl.ub \/ ~InRange(bl.Ubar, bl.k)]
         IN  RefineLoop(s2, j - 1, X, U, P, a, p)

\* The result: [U, P: the output buffers, ub]
RefineKnotVector(p, U, P, X, outU, outP) ==
    LET n   == Len(P) - 1
        m   == n + p + 1
        r   == Len(X) - 1
        a   == GetKnotSpanIndex(p, U, At(X, 0, R(0)))
        b   == GetKnotSpanIndex(p, U, At(X, r, R(0))) + 1
        u0  == Resize(outU, m + r + 2, R(0))
        u1  == CopyRange(u0, U, 0, a, 0)
        u2  == CopyRange(u1, U, b + p, m, r + 1)
        q0  == Resize(outP, n + r + 2, ZeroXYZW)
        q1  == CopyRange(q0, P, 0, a - p, 0)
        q2  == CopyRange(q1, P, b - 1, n, r + 1)
        out == \/ CopyRangeOut(u0, U, 0, a, 0)
               \/ CopyRangeOut(u1, U, b + p, m, r + 1)
               \/ CopyRangeOut(q0, P, 0, a - p, 0)
               \/ CopyRangeOut(q1, P, b - 1, n, r + 1)
        lp  == RefineLoop([Q |-> q2, Ubar |-> u2, i |-> b + p - 1,
                           k |-> b + p + r, ub |-> out],
                          r, X, U, P, a, p)
    IN  [U |-> lp.Ubar, P |-> lp.Q, ub |-> lp.ub]

(***************************************************************************)
(* DecomposeToBeziers                                                      *)
(***************************************************************************)
\* decomposedControlPoints[nb][i]
InRange2(D, nb, i) == InRange(D, nb) /\ InRange(D[nb + 1], i)

At2(D, nb, i) == IF InRange2(D, nb, i) THEN D[nb + 1][i + 1] ELSE ZeroXYZW

Put2(D, nb, i, x) ==
    IF InRange2(D, nb, i) THEN [D EXCEPT ![nb + 1][i + 1] = x] ELSE D

\* while (b < m && IsAlmostEqualTo(knotVector[b + 1], knotVector[b])) b++;
RECURSIVE DecomposeSkip(_, _, _)
DecomposeSkip(U, b, m) ==
    IF b < m /\ IsAlmostEqualTo(At(U, b + 1, R(0)), At(U, b, R(0)))
    THEN DecomposeSkip(U, b + 1, m)
    ELSE b

\* numerator = knotVector[b] - knotVector[a]; alphaVector(degree + 1);
\* for (j = degree; j > multi; j--)
\*     alphaVector[j-multi-1] = numerator / (knotVector[a+j] - knotVector[a])
DecomposeAlphas(p, U, a, b, multi) ==
    Tuple([x \in 1..(p + 1) |->
             IF x <= p - multi
             THEN RDiv(RSub(At(U, b, R(0)), At(U, a, R(0))),
                       RSub(At(U, a + x + multi, R(0)), At(U, a, R(0))))
             ELSE R(0)])

\* for (k = degree; k >= s; k--) { alpha = alphaVector[k - s];
\*     D[nb][k] = alpha * D[nb][k] + (1.0 - alpha) * D[nb][k - 1]; }
RECURSIVE DecomposeSweep(_, _, _, _, _)
DecomposeSweep(st, k, s, alphas, nb) ==
    IF k < s THEN st
    ELSE LET out == \/ ~InRange(alphas, k - s)
                    \/ ~InRange2(st.D, nb, k) \/ ~InRange2(st.D, nb, k - 1)
             x   == Blend(At(alphas, k - s, R(0)),
                          At2(st.D, nb, k), At2(st.D, nb, k - 1))
         IN  DecomposeSweep([st EXCEPT !.D = Put2(st.D, nb, k, x),
                                       !.ub = st.ub \/ out],
                            k - 1, s, alphas, nb)

\* for (j = 1; j <= r; j++) { save = r - j; s = multi + j; sweep;
\*     if (b < m) D[nb + 1][save] = D[nb][degree]; }
RECURSIVE DecomposeInsert(_, _, _, _, _, _, _, _)
DecomposeInsert(st, j, r, multi, alphas, p, b, m) ==
    IF j > r THEN st
    ELSE LET save == r - j
             sw   == DecomposeSweep(st, p, multi + j, alphas, st.nb)
             out  == \/ ~InRange2(sw.D, sw.nb + 1, save)
                     \/ ~InRange2(sw.D, sw.nb, p)
             s1   == IF b < m
                     THEN [sw EXCEPT !.D = Put2(sw.D, sw.nb + 1, save,
                                                At2(sw.D, sw.nb, p)),
                                     !.ub = sw.ub \/ out]
                     ELSE sw
         IN  DecomposeInsert(s1, j + 1, r, multi, alphas, p, b, m)

\* for (i = lo; i <= degree; i++) D[nb][i] = controlPoints[b - degree + i];
RECURSIVE DecomposeCopy(_, _, _, _, _)
DecomposeCopy(st, i, p, P, b) ==
    IF i > p THEN st
    ELSE LET out == ~InRange2(st.D, st.nb, i) \/ ~InRange(P, b - p + i)
         IN  DecomposeCopy(
                 [st EXCEPT !.D = Put2(st.D, st.nb, i,
                                       At(P, b - p + i, ZeroXYZW)),
                            !.ub = st.ub \/ out],
                 i + 1, p, P, b)

\* while (b < m) { i = b; skip the equal knots; multi = b - i + 1;
\*   if (multi < degree) { ...; nb++; if (b < m) { ...; a = b; b += 1; } } }
\* A pass with multi >= degree that leaves b where it was changes nothing
\* and is repeated for ever: hang.
RECURSIVE DecomposeLoop(_, _, _, _, _)
DecomposeLoop(st, p, U, P, m) ==
    IF st.b >= m THEN st
    ELSE LET b1    == DecomposeSkip(U, st.b, m)
             multi == b1 - st.b + 1
         IN  IF multi >= p
             THEN IF b1 = st.b THEN [st EXCEPT !.hang = TRUE]
                  ELSE DecomposeLoop([st EXCEPT !.b = b1], p, U, P, m)
             ELSE LET alphas == DecomposeAlphas(p, U, st.a, b1, multi)
                      out    == \E j \in (multi + 1)..p :
                                    ~InRange(U, st.a + j)
                      ins    == DecomposeInsert(
                                    [st EXCEPT !.b = b1, !.ub = st.ub \/ out],
                                    1, p - multi, multi, alphas, p, b1, m)
                      s1     == [ins EXCEPT !.nb = ins.nb + 1]
                      s2     == IF b1 < m
                                THEN [DecomposeCopy(s1, p - multi, p, P, b1)
                                          EXCEPT !.a = b1, !.b = b1 + 1]
                                ELSE s1
                  IN  DecomposeLoop(s2, p, U, P, m)

\* The result: [D: the segments, ub, hang: the call never returns]
DecomposeToBeziers(p, U, P) ==
    LET n  == Len(P) - 1
        m  == n + p + 1
        D0 == Fresh(Len(P) - p, Fresh(p + 1, ZeroXYZW))
        s0 == DecomposeCopy([D |-> D0, a |-> p, b |-> p + 1, nb |-> 0,
                             ub |-> FALSE, hang |-> FALSE],
                            0, p, P, p)
        lp == DecomposeLoop(s0, p, U, P, m)
    IN  [D |-> lp.D, ub |-> lp.ub, hang |-> lp.hang]

(***************************************************************************)
(* RemoveKnot                                                              *)
(***************************************************************************)
\* v.pop_back() n times
PopBack(v, n) == SubSeq(v, 1, Max(Len(v) - n, 0))

\* alphai = (removeKnot - knotVector[i])
\*              / (knotVector[i + order + t] - knotVector[i])
RemoveAlphaI(U, u, i, order, t) ==
    RDiv(RSub(u, At(U, i, R(0))),
         RSub(At(U, i + order + t, R(0)), At(U, i, R(0))))

\* alphaj = (removeKnot - knotVector[j - t])
\*              / (knotVector[j + order] - knotVector[j - t])
RemoveAlphaJ(U, u, j, order, t) ==
    RDiv(RSub(u, At(U, j - t, R(0))),
         RSub(At(U, j + order, R(0)), At(U, j - t, R(0))))

\* while (j - i >= t) { temp[ii] = (P[i] - (1 - alphai) temp[ii-1]) / alphai;
\*     temp[jj] = (P[j] - alphaj temp[jj+1]) / (1 - alphaj);
\*     i++; ii++; j--; jj--; }
RECURSIVE RemoveSweep(_, _, _, _, _, _)
RemoveSweep(st, U, P, u, order, t) ==
    IF st.j - st.i < t THEN st
    ELSE LET ai  == RemoveAlphaI(U, u, st.i, order, t)
             aj  == RemoveAlphaJ(U, u, st.j, order, t)
             t1  == Put(st.temp, st.ii,
                        PDiv(PSub(At(P, st.i, ZeroXYZW),
                                  PScale(RSub(R(1), ai),
                                         At(st.temp, st.ii - 1, ZeroXYZW))),
                             ai))
             t2  == Put(t1, st.jj,
                        PDiv(PSub(At(P, st.j, ZeroXYZW),
                                  PScale(aj, At(t1, st.jj + 1, ZeroXYZW))),
                             RSub(R(1), aj)))
             out == \/ ~InRange(U, st.i) \/ ~InRange(U, st.i + order + t)
                    \/ ~InRange(U, st.j - t) \/ ~InRange(U, st.j + order)
                    \/ ~InRange(P, st.i) \/ ~InRange(P, st.j)
                    \/ ~InRange(st.temp, st.ii)
                    \/ ~InRange(st.temp, st.ii - 1)
                    \/ ~InRange(st.temp, st.jj)
                    \/ ~InRange(st.temp, st.jj + 1)
         IN  RemoveSweep([temp |-> t2, i |-> st.i + 1, ii |-> st.ii + 1,
                          j |-> st.j - 1, jj |-> st.jj - 1,
                          ub |-> st.ub \/ out],
                         U, P, u, order, t)

\* if (j - i < t) remflag = Distance(temp[ii-1], temp[jj+1]) <= tol;
\* else remflag = Distance(P[i], alphai * temp[ii+t+1]
\*                               + (1.0 * alphai) * temp[ii-1]) <= tol
RemoveFlag(sw, U, P, u, order, t) ==
    IF sw.j - sw.i < t
    THEN WithinTolerance(At(sw.temp, sw.ii - 1, ZeroXYZW),
                         At(sw.temp, sw.jj + 1, ZeroXYZW))
    ELSE LET ai == RemoveAlphaI(U, u, sw.i, order, t)
         IN  WithinTolerance(
                 At(P, sw.i, ZeroXYZW),
                 PAdd(PScale(ai, At(sw.temp, sw.ii + t + 1, ZeroXYZW)),
                      PScale(RMul(R(1), ai),
                             At(sw.temp, sw.ii - 1, ZeroXYZW))))

RemoveFlagOut(sw, U, P, order, t) ==
    IF sw.j - sw.i < t
    THEN ~InRange(sw.temp, sw.ii - 1) \/ ~InRange(sw.temp, sw.jj + 1)
    ELSE \/ ~InRange(U, sw.i) \/ ~InRange(U, sw.i + order + t)
         \/ ~InRange(P, sw.i) \/ ~InRange(sw.temp, sw.ii + t + 1)
         \/ ~InRange(sw.temp, sw.ii - 1)

\* while (j - i > t) { Q[i] = temp[i - off]; Q[j] = temp[j - off];
\*                     i = i + 1; j = j - 1; }
RECURSIVE RemoveCommit(_, _, _, _, _, _)
RemoveCommit(qs, temp, i, j, off, t) ==
    IF j - i <= t THEN qs
    ELSE LET q1  == Put(qs.Q, i, At(temp, i - off, ZeroXYZW))
             q2  == Put(q1, j, At(temp, j - off, ZeroXYZW))
             out == \/ ~InRange(qs.Q, i) \/ ~InRange(qs.Q, j)
                    \/ ~InRange(temp, i - off) \/ ~InRange(temp, j - off)
         IN  RemoveCommit([Q |-> q2, ub |-> qs.ub \/ out],
                          temp, i + 1, j - 1, off, t)

\* temp[0] = P[first - 1]; temp[last + 1 - off] = P[last + 1]; i = first;
\* j = last; ii = 1; jj = last - off
RemoveStart(st, P, off) ==
    [temp |-> Put(Put(st.temp, 0, At(P, off, ZeroXYZW)),
                  st.last + 1 - off, At(P, st.last + 1, ZeroXYZW)),
     i |-> st.first, ii |-> 1, j |-> st.last, jj |-> st.last - off,
     ub |-> \/ st.ub
            \/ ~InRange(P, off) \/ ~InRange(P, st.last + 1)
            \/ ~InRange(st.temp, 0)
            \/ ~InRange(st.temp, st.last + 1 - off)]

\* if (remflag) the new control points are committed; first--; last++
RemoveDecided(st, sw, flag, out, t) ==
    LET cm == IF flag
              THEN RemoveCommit([Q |-> st.Q, ub |-> sw.ub \/ out],
                                sw.temp, st.first, st.last, st.first - 1, t)
              ELSE [Q |-> st.Q, ub |-> sw.ub \/ out]
    IN  [Q |-> cm.Q, temp |-> sw.temp,
         first |-> st.first - 1, last |-> st.last + 1,
         flags |-> Append(st.flags, flag), ub |-> cm.ub]

\* the attempt after the sweep left sw
RemoveSwept(st, sw, U, P, u, order, t) ==
    RemoveDecided(st, sw, RemoveFlag(sw, U, P, u, order, t),
                  RemoveFlagOut(sw, U, P, order, t), t)

\* one removal attempt
RemoveAttempt(st, t, U, P, u, order) ==
    RemoveSwept(st,
                RemoveSweep(RemoveStart(st, P, st.first - 1),
                            U, P, u, order, t),
                U, P, u, order, t)

\* for (t = 0; t < times; t++) { one removal attempt; first--; last++; }
\* There is no break: a failed attempt is followed by the next one.
RECURSIVE RemoveAttempts(_, _, _, _, _, _, _)
RemoveAttempts(st, t, times, U, P, u, order) ==
    IF t >= times THEN st
    ELSE RemoveAttempts(RemoveAttempt(st, t, U, P, u, order),
                        t + 1, times, U, P, u, order)

\* for (k = 1; k < t; k++) { if (k % 2 == 1) i = i + 1; else j = j - 1; }
RemoveShiftI(j, t) == j + Cardinality({k \in 1..(t - 1) : k % 2 = 1})

RemoveShiftJ(j, t) == j - Cardinality({k \in 1..(t - 1) : k % 2 = 0})

\* for (k = i + 1; k <= n; k++) { Q[j] = controlPoints[k]; j = j + 1; }
\* (the source is the control points the call was given)
RECURSIVE RemoveShift(_, _, _, _, _)
RemoveShift(qs, P, k, n, j) ==
    IF k > n THEN qs
    ELSE RemoveShift([Q |-> Put(qs.Q, j,
                                At(P, k, ZeroXYZW)),
                      ub |-> qs.ub \/ ~InRange(qs.Q, j) \/ ~InRange(P, k)],
                     P, k + 1, n, j + 1)

\* for (i = 0; i < times; i++) updatedControlPoints.pop_back()
RemoveTrimmed(sh, rest, remflags, times) ==
    [U |-> rest, P |-> PopBack(sh.Q, times), flags |-> remflags,
     ub |-> sh.ub \/ Len(sh.Q) < times]

\* if (t == 0) return; the control points behind the removed ones move down
RemoveShifted(at, rest, P, n, j0, times) ==
    IF times <= 0
    THEN [U |-> rest, P |-> at.Q, flags |-> at.flags, ub |-> at.ub]
    ELSE RemoveTrimmed(RemoveShift([Q |-> at.Q, ub |-> at.ub], P,
                                   RemoveShiftI(j0, times) + 1, n,
                                   RemoveShiftJ(j0, times)),
                       rest, at.flags, times)

\* The result: [U: restKnotVector, P: updatedControlPoints, flags: remflag
\* of each attempt, ub]
RemoveKnot(p, U, P, u, times) ==
    LET n     == Len(P) - 1
        order == p + 1
        s     == GetKnotMultiplicity(U, u)
        r     == GetKnotSpanIndex(p, U, u)
        m     == n + p + 1
    IN  RemoveShifted(
            RemoveAttempts(
                [Q |-> P, temp |-> Fresh(2 * p + 1, ZeroXYZW),
                 first |-> r - p, last |-> r - s, flags |-> <<>>,
                 ub |-> \/ CopyRangeOut(U, U, r + 1, m, 0 - times)
                        \/ Len(U) < times],
                0, times, U, P, u, order),
            PopBack(CopyRange(U, U, r + 1, m, 0 - times), times),
            P, n, (2 * r - s - p) \div 2, times)

(***************************************************************************)
(* ElevateDegree                                                           *)
(***************************************************************************)
\* bezalfs after the first loop: rows 0 and ph hold a single 1, the rows
\* 1..ph2 hold inv * Binomial(degree, j) * Binomial(times, i - j) for j in
\* max(0, i - times)..min(degree, i), every other entry is zero
BezalfsLow(p, times, i, j) ==
    LET ph == p + times
    IN  IF i = 0 THEN (IF j = 0 THEN R(1) ELSE R(0))
        ELSE IF i = ph THEN (IF j = p THEN R(1) ELSE R(0))
        ELSE IF /\ i <= ph \div 2
                /\ Max(0, i - times) <= j
                /\ j <= Min(p, i)
        THEN RMul(RMul(RDiv(R(1), R(Binomial(ph, i))), R(Binomial(p, j))),
                  R(Binomial(times, i - j)))
        ELSE R(0)

\* bezalfs[i][j]: the second loop sets the rows ph2+1..ph-1 from the rows
\* of the first, bezalfs[i][j] = bezalfs[ph - i][degree - j]
Bezalfs(p, times, i, j) ==
    LET ph == p + times
    IN  IF /\ ph \div 2 + 1 <= i
           /\ i <= ph - 1
           /\ Max(0, i - times) <= j
           /\ j <= Min(p, i)
        THEN BezalfsLow(p, times, ph - i, p - j)
        ELSE BezalfsLow(p, times, i, j)

\* while (b < m && IsAlmostEqualTo(knotVector[b], knotVector[b + 1])) b++;
RECURSIVE ElevateSkip(_, _, _)
ElevateSkip(U, b, m) ==
    IF b < m /\ IsAlmostEqualTo(At(U, b, R(0)), At(U, b + 1, R(0)))
    THEN ElevateSkip(U, b + 1, m)
    ELSE b

\* alfs(degree - 1); for (k = degree; k > mul; k--)
\*     alfs[k - mul - 1] = numer / (knotVector[a + k] - ua)
ElevateAlfs(p, U, a, ua, ubk, mul) ==
    IF p - 1 <= 0 THEN <<>>
    ELSE Tuple([x \in 1..(p - 1) |->
                  IF x <= p - mul
                  THEN RDiv(RSub(ubk, ua),
                            RSub(At(U, a + x + mul, R(0)), ua))
                  ELSE R(0)])

\* for (k = degree; k >= s; k--)
\*     bpts[k] = alfs[k-s] * bpts[k] + (1.0 - alfs[k-s]) * bpts[k-1]
RECURSIVE ElevateSweep(_, _, _, _)
ElevateSweep(bs, k, s, alfs) ==
    IF k < s THEN bs
    ELSE LET out == \/ ~InRange(alfs, k - s)
                    \/ ~InRange(bs.bpts, k) \/ ~InRange(bs.bpts, k - 1)
             x   == Blend(At(alfs, k - s, R(0)),
                          At(bs.bpts, k, ZeroXYZW),
                          At(bs.bpts, k - 1, ZeroXYZW))
         IN  ElevateSweep([bs EXCEPT !.bpts = Put(bs.bpts, k, x),
                                     !.ub = bs.ub \/ out],
                          k - 1, s, alfs)

\* for (j = 1; j <= r; j++) { save = r - j; s = mul + j; sweep;
\*                            nextbpts[save] = bpts[degree]; }
RECURSIVE ElevateInsert(_, _, _, _, _, _)
ElevateInsert(bs, j, r, mul, alfs, p) ==
    IF j > r THEN bs
    ELSE LET sw  == ElevateSweep(bs, p, mul + j, alfs)
             out == ~InRange(sw.nextbpts, r - j) \/ ~InRange(sw.bpts, p)
         IN  ElevateInsert(
                 [sw EXCEPT !.nextbpts = Put(sw.nextbpts, r - j,
                                             At(sw.bpts, p, ZeroXYZW)),
                            !.ub = sw.ub \/ out],
                 j + 1, r, mul, alfs, p)

\* for (j = max(0, i - times); j <= mpi; j++) ebpts[i] += bezalfs[i][j]*bpts[j]
RECURSIVE ElevateSum(_, _, _, _, _, _)
ElevateSum(p, times, bpts, i, j, mpi) ==
    IF j > mpi THEN ZeroXYZW
    ELSE PAdd(PScale(Bezalfs(p, times, i, j), At(bpts, j, ZeroXYZW)),
              ElevateSum(p, times, bpts, i, j + 1, mpi))

\* ebpts(degree + times + 1); for (i = lbz; i <= ph; i++) ebpts[i] = sum
ElevateEbpts(p, times, bpts, lbz) ==
    Tuple([x \in 1..(p + times + 1) |->
             IF x - 1 >= lbz
             THEN ElevateSum(p, times, bpts, x - 1,
                             Max(0, x - 1 - times), Min(p, x - 1))
             ELSE ZeroXYZW])

\* while (j - i > tr) {
\*   if (i < cind) { alf = (ub - Uh[i]) / (ua - Uh[i]);
\*                   Q[i] = alf * Q[i] + (1.0 - alf) * Q[i-1]; }
\*   if (j >= lbz) { if (j - tr <= kind - ph + oldr) {
\*                       gam = (ub - Uh[j-tr]) / den;
\*       ebpts[kj] = gam * ebpts[kj] + (1.0 - gam) * ebpts[kj+1]; }
\*     else ebpts[kj] = bet * ebpts[kj] + (1.0 - bet) * ebpts[kj+1]; }
\*   i = i + 1; j = j - 1; kj = kj - 1; }
RECURSIVE ElevateRemoveWhile(_, _, _, _, _, _)
ElevateRemoveWhile(qs, i, j, kj, tr, c) ==
    IF j - i <= tr THEN qs
    ELSE LET left  == i < c.cind
             right == j >= c.lbz
             near  == j - tr <= c.kind - c.ph + c.oldr
             alf   == RDiv(RSub(c.ubk, At(c.Uh, i, R(0))),
                           RSub(c.ua, At(c.Uh, i, R(0))))
             gam   == RDiv(RSub(c.ubk, At(c.Uh, j - tr, R(0))), c.den)
             q1    == IF left
                      THEN Put(qs.Q, i, Blend(alf, At(qs.Q, i, ZeroXYZW),
                                              At(qs.Q, i - 1, ZeroXYZW)))
                      ELSE qs.Q
             e1    == IF right
                      THEN Put(qs.ebpts, kj,
                               Blend(IF near THEN gam ELSE c.bet,
                                     At(qs.ebpts, kj, ZeroXYZW),
                                     At(qs.ebpts, kj + 1, ZeroXYZW)))
                      ELSE qs.ebpts
             out   == \/ left /\ (\/ ~InRange(c.Uh, i) \/ ~InRange(qs.Q, i)
                                  \/ ~InRange(qs.Q, i - 1))
                      \/ right /\ (\/ ~InRange(qs.ebpts, kj)
                                   \/ ~InRange(qs.ebpts, kj + 1)
                                   \/ (near /\ ~InRange(c.Uh, j - tr)))
         IN  ElevateRemoveWhile([Q |-> q1, ebpts |-> e1, ub |-> qs.ub \/ out],
                                i + 1, j - 1, kj - 1, tr, c)

\* for (tr = 1; tr < oldr; tr++) { i = first; j = last; kj = j - kind + 1;
\*                                 while ...; first -= 1; last += 1; }
RECURSIVE ElevateRemove(_, _, _, _, _)
ElevateRemove(qs, tr, first, last, c) ==
    IF tr >= c.oldr THEN qs
    ELSE ElevateRemove(
             ElevateRemoveWhile(qs, first, last, last - c.kind + 1, tr, c),
             tr + 1, first - 1, last + 1, c)

\* the scalars of one pass of while (b < m) { ... }: b after the skip, mul,
\* ub (here ubk), oldr, r, lbz, rbz, den, the number nk of knots ua and the
\* number np of control points the pass stores, kind after the knots
ElevateScalars(st, p, times, U, m) ==
    LET ph   == p + times
        b    == ElevateSkip(U, st.b, m)
        mul  == b - st.b + 1
        oldr == st.r
        r    == p - mul
        lbz  == IF oldr > 0 THEN (oldr + 2) \div 2 ELSE 1
        rbz  == IF r > 0 THEN ph - (r + 1) \div 2 ELSE ph
        nk   == IF st.a # p THEN Max(ph - oldr, 0) ELSE 0
    IN  [ph |-> ph, b |-> b, mul |-> mul, ubk |-> At(U, b, R(0)),
         oldr |-> oldr, r |-> r, lbz |-> lbz, rbz |-> rbz,
         den |-> RSub(At(U, b, R(0)), st.ua), nk |-> nk,
         kind |-> st.kind + nk, np |-> Max(rbz - lbz + 1, 0)]

\* if (r > 0) { alfs; the knot insertion }: bpts and nextbpts after it
ElevateInserted(st, x, p, U) ==
    IF x.r > 0
    THEN ElevateInsert(
             [bpts |-> st.bpts, nextbpts |-> st.nextbpts,
              ub |-> st.ub \/ \E k \in (x.mul + 1)..p : ~InRange(U, st.a + k)],
             1, x.r, x.mul, ElevateAlfs(p, U, st.a, st.ua, x.ubk, x.mul), p)
    ELSE [bpts |-> st.bpts, nextbpts |-> st.nextbpts, ub |-> st.ub]

\* what the knot removal reads
ElevateContext(st, x) ==
    [cind |-> st.cind, lbz |-> x.lbz, kind |-> st.kind, ph |-> x.ph,
     oldr |-> x.oldr, ua |-> st.ua, ubk |-> x.ubk, den |-> x.den,
     bet |-> RDiv(RSub(x.ubk, At(st.Uh, st.kind - 1, R(0))), x.den),
     Uh |-> st.Uh]

\* the degree elevation of the segment, then if (oldr > 1) { bet; the knot
\* removal }: Q and ebpts after it
ElevateRemoved(st, x, bs, p, times) ==
    ElevateRemove(
        [Q |-> st.Q, ebpts |-> ElevateEbpts(p, times, bs.bpts, x.lbz),
         ub |-> bs.ub \/ (x.oldr > 1 /\ ~InRange(st.Uh, st.kind - 1))],
        1, st.kind - 2, st.kind, ElevateContext(st, x))

\* if (a != degree) the knots ua are stored; ebpts[lbz..rbz] is stored in Q
ElevateStored(st, x, bs, qs, times) ==
    [Q |-> CopyRange(qs.Q, qs.ebpts, x.lbz, x.rbz, st.cind - x.lbz),
     Uh |-> FillRange(st.Uh, st.kind, st.kind + x.nk - 1, st.ua),
     bpts |-> bs.bpts, nextbpts |-> bs.nextbpts,
     a |-> st.a, b |-> x.b, r |-> x.r, kind |-> x.kind,
     cind |-> st.cind + x.np, ua |-> st.ua,
     mh |-> st.mh + x.mul + times,
     ub |-> \/ qs.ub
            \/ FillRangeOut(st.Uh, st.kind, st.kind + x.nk - 1)
            \/ CopyRangeOut(qs.Q, qs.ebpts, x.lbz, x.rbz, st.cind - x.lbz)]

\* if (b < m) { bpts from nextbpts and the control points; a = b; b = b + 1;
\*              ua = ub; } else the end knots ub are stored
ElevateAdvance(sv, x, P, p, m) ==
    IF x.b < m
    THEN LET bp1 == CopyRange(sv.bpts, sv.nextbpts, 0, x.r - 1, 0)
         IN  [sv EXCEPT
                !.bpts = CopyRange(bp1, P, x.b - p + x.r, x.b, p - x.b),
                !.a = x.b, !.b = x.b + 1, !.ua = x.ubk,
                !.ub = \/ sv.ub
                       \/ CopyRangeOut(sv.bpts, sv.nextbpts, 0, x.r - 1, 0)
                       \/ CopyRangeOut(bp1, P, x.b - p + x.r, x.b, p - x.b)]
    ELSE [sv EXCEPT
            !.Uh = FillRange(sv.Uh, x.kind, x.kind + x.ph, x.ubk),
            !.ub = sv.ub \/ FillRangeOut(sv.Uh, x.kind, x.kind + x.ph)]

\* the pass after the knot insertion left bs
ElevateSegment(st, x, bs, p, times, P, m) ==
    ElevateAdvance(
        ElevateStored(st, x, bs, ElevateRemoved(st, x, bs, p, times), times),
        x, P, p, m)

\* the pass with the scalars x
ElevateBody(st, x, p, times, U, P, m) ==
    ElevateSegment(st, x, ElevateInserted(st, x, p, U), p, times, P, m)

\* one pass of while (b < m) { ... }
ElevatePass(st, p, times, U, P, m) ==
    ElevateBody(st, ElevateScalars(st, p, times, U, m), p, times, U, P, m)

RECURSIVE ElevateLoop(_, _, _, _, _, _)
ElevateLoop(st, p, times, U, P, m) ==
    IF st.b >= m THEN st
    ELSE ElevateLoop(ElevatePass(st, p, times, U, P, m), p, times, U, P, m)

\* for (i = 0; i < times - 1; i++) pop_back() of both outputs (times > 1)
ElevateTrimmed(lp, np) ==
    [U |-> PopBack(lp.Uh, np), P |-> PopBack(lp.Q, np), mh |-> lp.mh,
     ub |-> lp.ub \/ Len(lp.Uh) < np \/ Len(lp.Q) < np]

\* The result: [U: updatedKnotVector, P: updatedControlPoints, mh, ub]
ElevateDegree(p, U, P, times, outU, outP) ==
    LET n   == Len(P) - 1
        m   == n + p + 1
        ph  == p + times
        ua  == At(U, 0, R(0))
        q0  == Resize(outP, n + n * times, ZeroXYZW)
        u0  == Resize(outU, n + n * times + ph + 1, R(0))
        out == \/ ~InRange(q0, 0) \/ ~InRange(P, 0)
               \/ FillRangeOut(u0, 0, ph)
               \/ CopyRangeOut(Fresh(p + 1, ZeroXYZW), P, 0, p, 0)
    IN  ElevateTrimmed(
            ElevateLoop(
                [Q |-> Put(q0, 0, At(P, 0, ZeroXYZW)),
                 Uh |-> FillRange(u0, 0, ph, ua),
                 bpts |-> CopyRange(Fresh(p + 1, ZeroXYZW), P, 0, p, 0),
                 nextbpts |-> Fresh(p - 1, ZeroXYZW),
                 a |-> p, b |-> p + 1, r |-> -1, kind |-> ph + 1,
                 cind |-> 1, ua |-> ua, mh |-> ph, ub |-> out],
                p, times, U, P, m),
            IF times > 1 THEN times - 1 ELSE 0)

(***************************************************************************)
(* CreateArc.  Angles are rationals in degrees, so Constants::Pi is 180.   *)
(* A control point of the arc is kept as what the code computed it from:   *)
(* "ellipse": center + xRadius cos(from) nX + yRadius sin(from) nY,        *)
(* "tangents": the intersection of the tangent rays at from and at to,     *)
(* "zero": a value-initialised XYZW, "stale": what the buffer held before; *)
(* its weight is the cosine of cosOf (1 = cos 0).                          *)
(***************************************************************************)
Pi == 180

EllipsePoint(angle) ==
    [kind |-> "ellipse", from |-> angle, to |-> angle, cosOf |-> R(0)]

TangentsPoint(a0, a2, half) ==
    [kind |-> "tangents", from |-> a0, to |-> a2, cosOf |-> half]

ZeroPoint == [kind |-> "zero", from |-> R(0), to |-> R(0), cosOf |-> R(0)]

StalePoint == [kind |-> "stale", from |-> R(0), to |-> R(0), cosOf |-> R(0)]

\* Intersection::ComputeRays(P0, T0, P2, T2, ...) is Intersecting: the
\* tangents of the ellipse at two angles meet unless they are parallel
RaysIntersect(a0, a2) == RDiv(RSub(a2, a0), R(Pi))[2] # 1

\* if (endRad < startRad) endRad = 2 * Pi + startRad; theta = endRad - startRad
ArcTheta(startRad, endRad) ==
    IF RLess(endRad, startRad) THEN R(2 * Pi) ELSE RSub(endRad, startRad)

\* the number of segments chosen from theta
ArcCount(theta) ==
    IF IsLessThanOrEqual(theta, RDiv(R(Pi), R(2))) THEN 1
    ELSE IF IsLessThanOrEqual(theta, R(Pi)) THEN 2
    ELSE IF IsLessThanOrEqual(theta, RDiv(R(3 * Pi), R(2))) THEN 3
    ELSE 4

\* for (i = 1; i < narcs; i++) { angle = angle + dtheta;
\*     controlPoints[index + 2] = XYZW(P2, 1);
\*     if (type != Intersecting) return false;
\*     controlPoints[index + 1] = XYZW(P1, w1); index = index + 2; ... }
RECURSIVE ArcLoop(_, _, _, _)
ArcLoop(st, i, narcs, dtheta) ==
    IF i >= narcs \/ st.failed THEN st
    ELSE LET angle == RAdd(st.angle, dtheta)
             p2    == Put(st.P, st.index + 2, EllipsePoint(angle))
             meet  == RaysIntersect(st.angle, angle)
             p1    == Put(p2, st.index + 1,
                          TangentsPoint(st.angle, angle,
                                        RDiv(dtheta, R(2))))
         IN  IF meet
             THEN ArcLoop([P |-> p1, index |-> st.index + 2, angle |-> angle,
                           failed |-> FALSE,
                           ub |-> \/ st.ub
                                  \/ ~InRange(st.P, st.index + 2)
                                  \/ ~InRange(st.P, st.index + 1)],
                          i + 1, narcs, dtheta)
             ELSE [P |-> p2, index |-> st.index, angle |-> angle,
                   failed |-> TRUE,
                   ub |-> st.ub \/ ~InRange(st.P, st.index + 2)]

\* switch (narcs): the interior knots; 1 / 3 and 2 / 3 divide integers
ArcInteriorKnots(U, narcs) ==
    IF narcs = 2 THEN FillRange(U, 3, 4, RDiv(R(1), R(2)))
    ELSE IF narcs = 3
    THEN FillRange(FillRange(U, 3, 4, R(1 \div 3)), 5, 6, R(2 \div 3))
    ELSE IF narcs = 4
    THEN FillRange(FillRange(FillRange(U, 3, 4, RDiv(R(1), R(4))),
                             5, 6, RDiv(R(1), R(2))),
                   7, 8, RDiv(R(3), R(4)))
    ELSE U

ArcInteriorKnotsOut(U, narcs) ==
    IF narcs = 1 THEN FALSE ELSE FillRangeOut(U, 3, 2 * narcs)

\* The result: [U: knotVector, P: controlPoints, degree: the degree set,
\* ret: the value returned, narcs, ub]
CreateArc(startRad, endRad, deg, outU, outP) ==
    LET theta  == ArcTheta(startRad, endRad)
        narcs  == ArcCount(theta)
        dtheta == RDiv(theta, R(narcs))
        n      == 2 * narcs
        u0     == Resize(outU, n + 3, R(0))
        p0     == Resize(outP, n, ZeroPoint)
        lp     == ArcLoop([P |-> Put(p0, 0, EllipsePoint(startRad)),
                           index |-> 0, angle |-> startRad, failed |-> FALSE,
                           ub |-> ~InRange(p0, 0)],
                          1, narcs, dtheta)
        j      == 2 * narcs + 1
        u1     == FillRange(FillRange(u0, 0, 2, R(0)), j, j + 2, R(1))
        out    == FillRangeOut(u0, 0, 2) \/ FillRangeOut(u0, j, j + 2)
        u2     == ArcInteriorKnots(u1, narcs)
    IN  IF lp.failed
        THEN [U |-> u0, P |-> lp.P, degree |-> deg, ret |-> FALSE,
              narcs |-> narcs, ub |-> lp.ub]
        ELSE [U |-> u2, P |-> lp.P, degree |-> 2, ret |-> TRUE,
              narcs |-> narcs,
              ub |-> lp.ub \/ out \/ ArcInteriorKnotsOut(u1, narcs)]

(***************************************************************************)
(* CreateOpenConic.  CreateOneConicArc gives the shoulder point P1 and its *)
(* weight w1 from ray intersections and a square root; the call is made    *)
(* with what it gave: created, P1 and w1.                                  *)
(***************************************************************************)
\* MathUtils::IsGreaterThanOrEqual(value1, value2)
IsGreaterThanOrEqual(a, b) == RLeq(b, a)

\* MathUtils::IsGreaterThan(value1, value2)
IsGreaterThan(a, b) == RLess(b, a)

\* MathUtils::IsLessThan(value1, value2)
IsLessThan(a, b) == RLess(a, b)

XYZAdd(a, b) == Tuple([c \in 1..3 |-> RAdd(a[c], b[c])])

XYZSub(a, b) == Tuple([c \in 1..3 |-> RSub(a[c], b[c])])

XYZScale(k, a) == Tuple([c \in 1..3 |-> RMul(k, a[c])])

XYZDiv(a, k) == Tuple([c \in 1..3 |-> RDiv(a[c], k)])

DotProduct(a, b) ==
    RAdd(RAdd(RMul(a[1], b[1]), RMul(a[2], b[2])), RMul(a[3], b[3]))

\* XYZW(xyz, w): the point xyz with the weight w, stored as <<wx, wy, wz, w>>
XYZW(xyz, w) == <<RMul(xyz[1], w), RMul(xyz[2], w), RMul(xyz[3], w), w>>

\* v1.Normalize().AngleTo(v2.Normalize()) > AngleToRadians(90): the cosine
\* is negative; the angle of a zero vector is not a number and exceeds nothing
AngleExceedsRight(v1, v2) == RLess(DotProduct(v1, v2), R(0))

\* v1.Normalize().AngleTo(v2.Normalize()) > AngleToRadians(60): the cosine
\* is below 1/2
AngleExceedsSixty(v1, v2) ==
    \/ AngleExceedsRight(v1, v2)
    \/ /\ RLess(R(0), DotProduct(v1, v1))
       /\ RLess(R(0), DotProduct(v2, v2))
       /\ RLess(RMul(R(4), RMul(DotProduct(v1, v2), DotProduct(v1, v2))),
                RMul(DotProduct(v1, v1), DotProduct(v2, v2)))

\* SplitArc(start, projectPoint, projectPointWeight, end, Q, S, R,
\* insertWeight): the three points it writes through its references.
\* insertWeight is a parameter passed by value: the square root assigned to
\* it stays in the callee, and the caller's variable keeps what it held.
SplitArc(start, projectPoint, projectPointWeight, end) ==
    LET q == XYZDiv(XYZAdd(start, XYZScale(projectPointWeight, projectPoint)),
                    RAdd(R(1), projectPointWeight))
        r == XYZDiv(XYZAdd(XYZScale(projectPointWeight, projectPoint), end),
                    RAdd(R(1), projectPointWeight))
    IN  [Q |-> q, S |-> XYZDiv(XYZAdd(q, r), R(2)), R |-> r]

\* the segment count chosen from w1 and the angle between P1 - start and
\* end - P1
ConicSegments(start, P1, w1, end) ==
    IF IsGreaterThanOrEqual(w1, R(1)) THEN 1
    ELSE IF /\ IsGreaterThan(w1, R(0))
            /\ AngleExceedsSixty(XYZSub(P1, start), XYZSub(end, P1)) THEN 1
    ELSE IF /\ IsLessThan(w1, R(0))
            /\ AngleExceedsRight(XYZSub(P1, start), XYZSub(end, P1)) THEN 4
    ELSE 2

\* knotVector.resize(j + 3); for (i = 0; i < 3; i++)
\*     { knotVector[i] = 0.0; knotVector[i + j] = 1.0; }
ConicEndKnots(outU, j) ==
    FillRange(FillRange(Resize(outU, j + 3, R(0)), 0, 2, R(0)),
              j, j + 2, R(1))

\* controlPoints.resize(n + 1); controlPoints[0] = XYZW(start, 1.0);
\* controlPoints[n] = XYZW(end, 1.0);
ConicEndPoints(outP, n, start, end) ==
    Put(Put(Resize(outP, n + 1, ZeroXYZW), 0, XYZW(start, R(1))),
        n, XYZW(end, R(1)))

\* nsegs == 2: the split point and the two points SplitArc inserted, with
\* the weight wqr the caller holds
ConicTwo(U, P, sp, wqr) ==
    [U |-> FillRange(U, 3, 4, Norm(1, 2)),
     P |-> Put(Put(Put(P, 2, XYZW(sp.S, R(1))), 1, XYZW(sp.Q, wqr)),
               3, XYZW(sp.R, wqr))]

\* nsegs == 4: both halves are split again with w1 = wqr
ConicFour(U, P, sp, lo, hi, wqr) ==
    [U |-> FillRange(FillRange(FillRange(U, 3, 4, Norm(1, 4)),
                               5, 6, Norm(1, 2)), 7, 8, Norm(3, 4)),
     P |-> Put(Put(Put(Put(Put(Put(Put(P,
               4, XYZW(sp.S, R(1))),
               2, XYZW(lo.S, R(1))), 1, XYZW(lo.Q, wqr)),
               3, XYZW(lo.R, wqr)),
               6, XYZW(hi.S, R(1))), 5, XYZW(hi.Q, wqr)),
               7, XYZW(hi.R, wqr))]

\* the curve written for nsegs segments into the buffers U and P
ConicWritten(nsegs, U, P, start, P1, w1, end, sp, wqr) ==
    IF nsegs = 1 THEN [U |-> U, P |-> Put(P, 1, XYZW(P1, w1))]
    ELSE IF nsegs = 2 THEN ConicTwo(U, P, sp, wqr)
    ELSE ConicFour(U, P, sp, SplitArc(start, sp.Q, wqr, sp.S),
                   SplitArc(sp.S, sp.R, wqr, end), wqr)

\* The result: [ret, U: knotVector, P: controlPoints, degree, nsegs].  wqr
\* is declared 0.0 and no call of SplitArc changes it.
CreateOpenConic(start, end, isCreated, P1, w1, deg, outU, outP) ==
    IF ~isCreated \/ IsLessThanOrEqual(w1, R(0 - 1))
    THEN [ret |-> FALSE, U |-> outU, P |-> outP, degree |-> deg, nsegs |-> 0]
    ELSE LET nsegs == ConicSegments(start, P1, w1, end)
             wrote == ConicWritten(nsegs,
                                   ConicEndKnots(outU, 2 * nsegs + 1),
                                   ConicEndPoints(outP, 2 * nsegs, start, end),
                                   start, P1, w1, end,
                                   SplitArc(start, P1, w1, end), R(0))
         IN  [ret |-> TRUE, U |-> wrote.U, P |-> wrote.P, degree |-> 2,
              nsegs |-> nsegs]

(***************************************************************************)
(* The fitting operations.  The through points lie on the x axis, so that  *)
(* their distances are rational.  A control point that comes out of a      *)
(* linear solve is kept by its origin: [kind, index, w].                   *)
(***************************************************************************)
\* the x coordinate of through point i of family sh: equally spaced
\* (sh = 1) or going back and forth (sh = 2)
DataX(sh, i) == i + (sh - 1) * 2 * (i % 2)

DataPoint(sh, i) == <<R(DataX(sh, i)), R(0), R(0)>>

\* throughPoints[i - 1].Distance(throughPoints[i])
DataChord(sh, i) ==
    IF DataX(sh, i) >= DataX(sh, i - 1) THEN DataX(sh, i) - DataX(sh, i - 1)
    ELSE DataX(sh, i - 1) - DataX(sh, i)

RECURSIVE DataLength(_, _)
DataLength(sh, i) ==
    IF i <= 0 THEN 0 ELSE DataLength(sh, i - 1) + DataChord(sh, i)

\* Interpolation::GetChordParameterization(throughPoints)
GetChordParameterization(sh, size) ==
    Tuple([k \in 1..size |->
             IF k = size THEN R(1)
             ELSE Norm(DataLength(sh, k - 1), DataLength(sh, size - 1))])

RECURSIVE SumParams(_, _, _)
SumParams(uk, lo, hi) ==
    IF lo > hi THEN R(0) ELSE RAdd(At(uk, lo, R(0)), SumParams(uk, lo + 1, hi))

\* Interpolation::ComputeKnotVector(degree, pointsCount, params): the
\* clamped knot vector that averages the parameters
AveragedKnots(p, size, uk) ==
    Tuple([k \in 1..(size + p + 1) |->
             IF k <= p + 1 THEN R(0)
             ELSE IF k > size THEN R(1)
             ELSE RDiv(SumParams(uk, k - 1 - p, k - 2), R(p))])

\* Interpolation::ComputeKnotVector(degree, pointsCount, controlPointsCount,
\* params): the clamped knot vector of controlPointsCount + degree + 1 knots
\* placed among the parameters
PlacedKnots(p, size, count, uk) ==
    LET d == Norm(size, count - p)
    IN  Tuple([k \in 1..(count + p + 1) |->
                 IF k <= p + 1 THEN R(0)
                 ELSE IF k > count THEN R(1)
                 ELSE LET jd == RMul(R(k - 1 - p), d)
                          i  == jd[1] \div jd[2]
                          al == RSub(jd, R(i))
                      IN  RAdd(RMul(RSub(R(1), al), At(uk, i - 1, R(0))),
                               RMul(al, At(uk, i, R(0))))])

\* through point i, with the weight w
DataFit(i, w) == [kind |-> "data", index |-> i, w |-> w]

\* point i of the solution of a linear system, with the weight w
SolvedFit(i, w) == [kind |-> "solved", index |-> i, w |-> w]

\* what a read past the end of a vector gave, with the weight w
GarbageFit(w) == [kind |-> "garbage", index |-> 0, w |-> w]

\* for (i = 0; i < size; i++) controlPoints[i] = XYZW(tempControlPoints[i], 1)
\* with tempControlPoints of solved points
WriteSolved(outP, size, solved) ==
    Tuple([k \in 1..Len(outP) |->
             IF k > size THEN outP[k]
             ELSE IF k > solved THEN GarbageFit(R(1))
             ELSE SolvedFit(k - 1, R(1))])

\* NurbsCurve::GlobalInterpolation.  The result: [U, P, ub].  knotVector is
\* assigned; controlPoints is written where it is, never resized.
GlobalInterpolation(p, size, uk, outP) ==
    [U  |-> AveragedKnots(p, size, uk),
     P  |-> WriteSolved(outP, size, size),
     ub |-> size > Len(outP)]

\* if (n < degree || n > m - 1) return false;
LeastSquaresRejects(p, size, count) ==
    (count - 1) < p \/ (count - 1) > (size - 1) - 1

\* NurbsCurve::LeastSquaresApproximation.  The result: [ret, U, P, ub].
\* MathUtils::Transpose takes the matrix it fills by value, so Nt stays
\* empty and the system solved is not the normal equations; the solve gives
\* at most as many points as its right-hand side R has: n - 1.  The last
\* loop runs to size, reading tempControlPoints past its end, and writes
\* controlPoints where it is, never resized.
LeastSquaresApproximation(p, size, count, uk, outU, outP) ==
    IF LeastSquaresRejects(p, size, count)
    THEN [ret |-> FALSE, U |-> outU, P |-> outP, ub |-> FALSE]
    ELSE [ret |-> TRUE,
          U   |-> PlacedKnots(p, size, count, uk),
          P   |-> WriteSolved(outP, size, count - 2),
          ub  |-> size > count - 2 \/ size > Len(outP)]

(***************************************************************************)
(* NurbsCurve::GlobalCurveApproximationByErrorBound and the knot removal   *)
(* it calls.                                                               *)
(***************************************************************************)
\* Constants::MaxDistance: above every distance of the model
MaxDistance == R(1000000)

RAbs(a) == IF a[1] < 0 THEN RSub(R(0), a) ELSE a

\* XYZW::Distance(another) for two points that differ along one axis
Distance(a, b) ==
    RAdd(RAdd(RAbs(RSub(a[1], b[1])), RAbs(RSub(a[2], b[2]))),
         RAdd(RAbs(RSub(a[3], b[3])), RAbs(RSub(a[4], b[4]))))

\* Polynomials::OneBasisFunction(index, degree, knotVector, paramT)
OneBasisFunction(i, p, U, t) ==
    BasisFunction(i, p, GetKnotSpanIndex(p, U, t), U, t)

\* while (j - i > 0) { alfi = ...; alfj = ...; temp[ii] = ...; temp[jj] = ...;
\*                     i += 1; ii += 1; j = j - 1; jj = jj - 1; }
RECURSIVE ErrorBoundSweep(_, _, _, _, _, _, _, _, _)
ErrorBoundSweep(temp, i, j, ii, jj, U, P, u, ord) ==
    IF j - i > 0
    THEN LET alfi == RDiv(RSub(u, At(U, i, R(0))),
                          RSub(At(U, i + ord, R(0)), At(U, i, R(0))))
             alfj == RDiv(RSub(u, At(U, j, R(0))),
                          RSub(At(U, j + ord, R(0)), At(U, j, R(0))))
             ti   == Put(temp, ii,
                         PDiv(PSub(At(P, i, ZeroXYZW),
                                   PScale(RSub(R(1), alfi),
                                          At(temp, ii - 1, ZeroXYZW))),
                              alfi))
             tj   == Put(ti, jj,
                         PDiv(PSub(At(P, j, ZeroXYZW),
                                   PScale(alfj, At(ti, jj + 1, ZeroXYZW))),
                              RSub(R(1), alfj)))
         IN  ErrorBoundSweep(tj, i + 1, j - 1, ii + 1, jj - 1, U, P, u, ord)
    ELSE [temp |-> temp, i |-> i, j |-> j, ii |-> ii, jj |-> jj]

\* the distance returned after the sweep
ErrorBoundOf(sw, U, P, u, ord) ==
    IF sw.j - sw.i < 0
    THEN Distance(At(sw.temp, sw.ii - 1, ZeroXYZW),
                  At(sw.temp, sw.jj + 1, ZeroXYZW))
    ELSE Distance(At(P, sw.i, ZeroXYZW),
                  Blend(RDiv(RSub(u, At(U, sw.i, R(0))),
                             RSub(At(U, sw.i + ord, R(0)),
                                  At(U, sw.i, R(0)))),
                        At(sw.temp, sw.ii + 1, ZeroXYZW),
                        At(sw.temp, sw.ii - 1, ZeroXYZW)))

\* NurbsCurve::ComputerRemoveKnotErrorBound(degree, knotVector,
\* controlPoints, removalIndex)
ComputerRemoveKnotErrorBound(p, U, P, r) ==
    LET u     == At(U, r, R(0))
        last  == r - GetKnotMultiplicity(U, u)
        first == r - p
        off   == first - 1
    IN  ErrorBoundOf(
            ErrorBoundSweep(
                Put(Put(Fresh(last + 1 - off + 1, ZeroXYZW),
                        0, At(P, off, ZeroXYZW)),
                    last + 1 - off, At(P, last + 1, ZeroXYZW)),
                first, last, 1, last - off, U, P, u, p + 1),
            U, P, u, p + 1)

\* for (i = degree + 1; i < controlPointsSize; i++)
\*     if (knotVector[i] < knotVector[i + 1]) Br[i] = the bound of knot i
\*     else Br[i] = MaxDistance
RemoveBoundBr(p, U, P) ==
    Tuple([k \in 1..Len(U) |->
             IF /\ (k - 1) \in (p + 1)..(Len(P) - 1)
                /\ RLess(U[k], At(U, k, R(0)))
             THEN ComputerRemoveKnotErrorBound(p, U, P, k - 1)
             ELSE MaxDistance])

\* S[i] = GetKnotMultiplicity(knotVector, knotVector[i]) or 1 in that loop
RemoveBoundS(p, U, P) ==
    Tuple([k \in 1..Len(U) |->
             IF (k - 1) \notin (p + 1)..(Len(P) - 1) THEN 0
             ELSE IF RLess(U[k], At(U, k, R(0)))
                  THEN GetKnotMultiplicity(U, U[k])
                  ELSE 1])

\* the indices i >= from of the parameters in the knot span
SpanParams(p, U, uk, span, from) ==
    {i \in from..(Len(uk) - 1) : GetKnotSpanIndex(p, U, uk[i + 1]) = span}

\* if (!Nl[spanIndex]) Nl[spanIndex] = i;
RemoveBoundNl(p, U, uk) ==
    Tuple([k \in 1..Len(U) |->
             IF SpanParams(p, U, uk, k - 1, 1) = {} THEN 0
             ELSE CHOOSE i \in SpanParams(p, U, uk, k - 1, 1) :
                      \A j \in SpanParams(p, U, uk, k - 1, 1) : i <= j])

\* if (i + 1 < ukSize) Nr[spanIndex] = i + 1;
RemoveBoundNr(p, U, uk) ==
    Tuple([k \in 1..Len(U) |->
             LET in == {i \in SpanParams(p, U, uk, k - 1, 0) :
                          i + 1 < Len(uk)}
             IN  IF in = {} THEN Len(uk) - 1
                 ELSE 1 + CHOOSE i \in in : \A j \in in : j <= i])

\* NewError[i] for the removal of knot r from the curve (p, U)
RemoveBoundNewError(p, U, Br, S, uk, r, i) ==
    IF (p + At(S, r, 0)) % 2 = 1
    THEN LET k == (p + At(S, r, 0) + 1) \div 2
             a == RDiv(RSub(At(U, r, R(0)), At(U, r - k + 1, R(0))),
                       RSub(At(U, r - k + p + 2, R(0)),
                            At(U, r - k + 1, R(0))))
         IN  RMul(RMul(RSub(R(1), a), At(Br, r, R(0))),
                  OneBasisFunction(r - k + 1, p, U, At(uk, i, R(0))))
    ELSE RMul(At(Br, r, R(0)),
              OneBasisFunction(r - ((p + At(S, r, 0)) \div 2), p, U,
                               At(uk, i, R(0))))

\* removable: temp[i] = NewError[i] + error[i] is at most maxError for every
\* i from Nl[Rstart] to Nr[Rend]
RemoveBoundRemovable(p, U, Br, S, Nl, Nr, uk, error, maxError, r, n) ==
    \A i \in At(Nl, Max(r - p, p + 1), 0)
             ..At(Nr, Min(r + p - At(S, r + p, 0) + 1, n), 0) :
        ~RLess(maxError,
               RAdd(RemoveBoundNewError(p, U, Br, S, uk, r, i),
                    At(error, i, R(0))))

\* BrMinIndex: the first index of the least Br
RemoveBoundMin(Br) ==
    (CHOOSE k \in 1..Len(Br) :
        /\ \A j \in 1..Len(Br) : RLeq(Br[k], Br[j])
        /\ \A j \in 1..(k - 1) : Br[j] # Br[k]) - 1

\* while (1): the least bound is tried; a knot that is not removable gets
\* the bound MaxDistance.  A removable knot r is removed by
\* RemoveKnot(degree, tempU, tempCP, r, 1, ...), which is given the index r
\* as the value of the knot to remove: its validation of the range throws
\* when r is not within the knots, and the call is followed no further.
RECURSIVE RemoveBoundLoop(_, _, _, _, _, _, _, _, _, _)
RemoveBoundLoop(Br, p, U, P, S, Nl, Nr, uk, error, maxError) ==
    IF \A k \in 1..Len(Br) : ~RLess(Br[k], MaxDistance)
    THEN [thrown |-> FALSE, Uh |-> <<>>, Ph |-> <<>>]
    ELSE IF RemoveBoundRemovable(p, U, Br, S, Nl, Nr, uk, error, maxError,
                                 RemoveBoundMin(Br), Len(P) - 1)
    THEN [thrown |-> ~InParamRange(U, R(RemoveBoundMin(Br))),
          Uh |-> <<>>, Ph |-> <<>>]
    ELSE RemoveBoundLoop(Put(Br, RemoveBoundMin(Br), MaxDistance), p, U, P,
                         S, Nl, Nr, uk, error, maxError)

\* NurbsCurve::RemoveKnotsByGivenBound.  The result: [thrown, Uh:
\* updatedKnotVector, Ph: updatedControlPoints].  No statement of the
\* function assigns to updatedKnotVector or to updatedControlPoints: they
\* are as the caller passed them, empty.
RemoveKnotsByGivenBound(p, U, P, uk, error, maxError) ==
    RemoveBoundLoop(RemoveBoundBr(p, U, P), p, U, P, RemoveBoundS(p, U, P),
                    RemoveBoundNl(p, U, uk), RemoveBoundNr(p, U, uk), uk,
                    error, maxError)

\* U.resize(2 + m - 1 + 2); U[i + 1] = uk[i]; U[0] = 0; U[U.size() - 1] = 1
ApproximationKnots(uk) == <<R(0)>> \o uk \o <<R(1)>>

\* P[i] = XYZW(throughPoints[i], 1)
ApproximationPoints(sh, size) ==
    Tuple([k \in 1..size |-> XYZW(DataPoint(sh, k - 1), R(1))])

\* after the loop over the degrees: n == nh never holds, as nh is the size
\* of the empty Ph less one; the curve is fitted with as many control
\* points as P has, and on rejection (U, P) is returned
ApproximationReturned(p, size, U, P, outU, outP) ==
    IF LeastSquaresRejects(p, size, Len(P))
    THEN [thrown |-> FALSE, U |-> U, P |-> P]
    ELSE [thrown |-> FALSE, U |-> <<>>, P |-> <<>>]

\* for (deg = 1; deg <= degree + 1; deg++) { RemoveKnotsByGivenBound(deg, U,
\*     P, uk, error, maxError, Uh, Ph); if (deg == degree) break;
\*     ElevateDegree(deg, Uh, Ph, 1, tU, tP); U = tU; P = tP; ... }
RECURSIVE ApproximationLoop(_, _, _, _, _, _, _, _, _, _)
\* U = tU; P = tP; and the next degree, for the curve ElevateDegree gave
ApproximationElevated(deg, p, size, elevated, uk, err, maxError, outU, outP) ==
    ApproximationLoop(deg + 1, p, size, elevated.U, elevated.P, uk, err,
                      maxError, outU, outP)

ApproximationLoop(deg, p, size, U, P, uk, error, maxError, outU, outP) ==
    LET removed == RemoveKnotsByGivenBound(deg, U, P, uk, error, maxError)
    IN  IF removed.thrown THEN [thrown |-> TRUE, U |-> outU, P |-> outP]
        ELSE IF deg = p
        THEN ApproximationReturned(p, size, U, P, outU, outP)
        ELSE IF ~ValidCurveArguments(deg, removed.Uh, removed.Ph)
        THEN [thrown |-> TRUE, U |-> outU, P |-> outP]
        ELSE ApproximationElevated(deg, p, size,
                 ElevateDegree(deg, removed.Uh, removed.Ph, 1, <<>>, <<>>),
                 uk, error, maxError, outU, outP)

\* The result: [thrown, U: knotVector, P: controlPoints]
GlobalCurveApproximationByErrorBound(p, sh, size, maxError, outU, outP) ==
    ApproximationLoop(1, p, size,
                      ApproximationKnots(GetChordParameterization(sh, size)),
                      ApproximationPoints(sh, size),
                      GetChordParameterization(sh, size),
                      Fresh(size, R(0)), maxError, outU, outP)

(***************************************************************************)
(* NurbsCurve::GetParamOnCurve                                             *)
(***************************************************************************)
\* the iterations of Newton's method at most
maxIterations == 10

\* the control points of the derivative of the B-spline (p, U, P):
\* p * (P[i + 1] - P[i]) / (U[i + p + 1] - U[i + 1])
DerivativeNet(p, U, P) ==
    Tuple([k \in 1..(Len(P) - 1) |->
             PScale(RDiv(R(p), RSub(At(U, k + p, R(0)), At(U, k, R(0)))),
                    PSub(P[k + 1], P[k]))])

\* the knots of the derivative: U without its first and last knot
DerivativeKnots(U) == SubSeq(U, 2, Len(U) - 1)

\* BsplineCurve::ComputeDerivatives(degree, 2, knotVector, paramT,
\* controlPoints): the curve in homogeneous coordinates and its first two
\* derivatives at paramT
ComputeDerivatives(p, U, t, P) ==
    <<BsplinePoint(p, U, t, P),
      BsplinePoint(p - 1, DerivativeKnots(U), t, DerivativeNet(p, U, P)),
      IF p < 2 THEN ZeroXYZW
      ELSE BsplinePoint(p - 2, DerivativeKnots(DerivativeKnots(U)), t,
                        DerivativeNet(p - 1, DerivativeKnots(U),
                                      DerivativeNet(p, U, P)))>>

\* ders[k].ToXYZ(false): the coordinates without the division by the weight
Aders(ders, k) == <<ders[k + 1][1], ders[k + 1][2], ders[k + 1][3]>>

\* for (k = 0; k <= derivative; k++) { v = Aders[k];
\*     for (i = 1; i <= k; i++)
\*         v = v - Binomial(k, i) * wders[i] * derivatives[k - i];
\*     derivatives[k] = v / wders[0]; }
RationalDerivatives(ders) ==
    LET d0 == XYZDiv(Aders(ders, 0), ders[1][4])
        d1 == XYZDiv(XYZSub(Aders(ders, 1),
                            XYZScale(RMul(R(Binomial(1, 1)), ders[2][4]),
                                     d0)),
                     ders[1][4])
    IN  <<d0, d1,
          XYZDiv(XYZSub(XYZSub(Aders(ders, 2),
                               XYZScale(RMul(R(Binomial(2, 1)), ders[2][4]),
                                        d1)),
                        XYZScale(RMul(R(Binomial(2, 2)), ders[3][4]), d0)),
                 ders[1][4])>>

\* NurbsCurve::ComputeRationalCurveDerivatives(degree, 2, knotVector, paramT,
\* controlPoints) for arguments that pass its validation
ComputeRationalCurveDerivatives(p, U, t, P) ==
    RationalDerivatives(ComputeDerivatives(p, U, t, P))

\* a length: the square root of sq, plus plus; none: Constants::MaxDistance,
\* above every length of the model
NoLength == [sq |-> R(0), plus |-> R(0), none |-> TRUE]

LengthOf(v, plus) ==
    [sq |-> DotProduct(v, v), plus |-> plus, none |-> FALSE]

\* sqrt(A) + c < sqrt(B) + d, decided on the squares
SqrtLess(A, c, B, d) ==
    LET L == RSub(RAdd(A, B), RMul(RSub(d, c), RSub(d, c)))
        AB == RMul(R(4), RMul(A, B))
    IN  IF RLeq(c, d)
        THEN RLess(A, B) \/ RLess(L, R(0)) \/ RLess(RMul(L, L), AB)
        ELSE RLess(A, B) /\ RLess(R(0), L) /\ RLess(AB, RMul(L, L))

\* distance < minValue; a distance that is not a number is below nothing
LengthLess(d, minValue) ==
    /\ ~IsNaN(d.sq) /\ ~IsNaN(d.plus)
    /\ minValue.none \/ SqrtLess(d.sq, d.plus, minValue.sq, minValue.plus)

\* the projection of givenPoint on the chord from currentPoint to nextPoint
\* as the sampling loop computes it: [projectU, distance]
ParamProject(currentU, nextU, currentPoint, nextPoint, G, dot) ==
    IF RLess(dot, R(0))
    THEN [projectU |-> currentU,
          distance |-> LengthOf(XYZSub(G, currentPoint), R(0))]
    ELSE IF RLess(R(1), dot)
    THEN [projectU |-> nextU,
          distance |-> LengthOf(XYZSub(G, nextPoint), R(0))]
    ELSE [projectU |-> RAdd(currentU, RMul(RSub(nextU, currentU), dot)),
          distance |->
              IF currentPoint = G
              THEN [sq |-> NaN, plus |-> NaN, none |-> FALSE]
              ELSE LengthOf(XYZSub(currentPoint, G), dot)]

\* if (distance < minValue) { minValue = distance; paramT = projectU; }
ParamKeep(st, pr) ==
    IF LengthLess(pr.distance, st.minValue)
    THEN [minValue |-> pr.distance, paramT |-> pr.projectU]
    ELSE st

\* for (i = 0; i < samples - 1; i++) { ... }
RECURSIVE ParamSample(_, _, _, _, _, _, _, _)
ParamSample(st, i, samples, span, p, U, P, G) ==
    IF i >= samples - 1 THEN st
    ELSE LET currentU == RAdd(U[1], RMul(span, R(i)))
             nextU    == RAdd(U[1], RMul(span, R(i + 1)))
             current  == GetPointOnCurve(p, U, currentU, P)
             next     == GetPointOnCurve(p, U, nextU, P)
         IN  ParamSample(
                 ParamKeep(st,
                     ParamProject(currentU, nextU, current, next, G,
                                  DotProduct(XYZSub(current, G),
                                             XYZSub(next, current)))),
                 i + 1, samples, span, p, U, P, G)

\* ValidationUtils::IsClosed(controlPoints): the first and the last control
\* point coincide
IsClosed(P) == P[1] = P[Len(P)]

\* the Newton step brought back to [a, b]: clamped for a closed curve, else
\* reflected by the length it is out by
ParamBack(temp, closed, a, b) ==
    LET low == IF ~RLess(temp, a) THEN temp
               ELSE IF closed THEN a ELSE RSub(b, RSub(a, temp))
    IN  IF ~RLess(b, low) THEN low
        ELSE IF closed THEN b ELSE RAdd(a, RSub(low, b))

\* condition1 < DistanceEpsilon && condition2 < DistanceEpsilon: the lengths
\* of the model are zero or far above the epsilon, and condition2, a quotient
\* by condition1, is not a number when condition1 is zero
ParamConverged(d1, difference, f) ==
    /\ DotProduct(difference, difference) = R(0)
    /\ DotProduct(d1, d1) # R(0) /\ DotProduct(difference, difference) # R(0)
    /\ f = R(0)

\* condition4 = ((temp - paramT) * derivatives[1]).Length() < DistanceEpsilon
ParamSettled(temp, paramT, d1) ==
    /\ ~IsNaN(temp)
    /\ temp = paramT \/ DotProduct(d1, d1) = R(0)

\* one pass of while (counters < maxIterations) from the derivatives ds
\* at paramT: the parameter returned, or the next one
ParamNewton(ds, paramT, G, closed, a, b) ==
    LET difference == XYZSub(ds[1], G)
        f    == DotProduct(ds[2], difference)
        df   == RAdd(DotProduct(ds[3], difference), DotProduct(ds[2], ds[2]))
        raw  == RSub(paramT, RDiv(f, df))
        temp == ParamBack(raw, closed, a, b)
    IN  [returns |-> \/ ParamConverged(ds[2], difference, f)
                     \/ ParamSettled(temp, paramT, ds[2]),
         temp |-> temp, raw |-> raw,
         converged |-> ParamConverged(ds[2], difference, f),
         outside |-> RLess(raw, a) \/ RLess(b, raw)]

\* while (counters < maxIterations) { ...; paramT = temp; counters++; }
\* return paramT;  ComputeRationalCurveDerivatives throws for a paramT that
\* is not within the knots.
\* no Newton step has left the domain yet
NoStepOutside == [outside |-> FALSE, raw |-> R(0), back |-> R(0)]

\* the first Newton step that left [a, b], as computed and as brought back
\* (a pass that returns at its first test computes no step)
ParamFirstOutside(first, step) ==
    IF ~first.outside /\ ~step.converged /\ step.outside
    THEN [outside |-> TRUE, raw |-> step.raw, back |-> step.temp]
    ELSE first

RECURSIVE ParamLoop(_, _, _, _, _, _, _)
ParamStep(step, paramT, counters, p, U, P, G, first) ==
    IF step.returns
    THEN [thrown |-> FALSE, paramT |-> paramT, iterations |-> counters + 1,
          first |-> first]
    ELSE ParamLoop(step.temp, counters + 1, p, U, P, G, first)

ParamLoop(paramT, counters, p, U, P, G, first) ==
    IF counters >= maxIterations
    THEN [thrown |-> FALSE, paramT |-> paramT, iterations |-> counters,
          first |-> first]
    ELSE IF ~InParamRange(U, paramT)
    THEN [thrown |-> TRUE, paramT |-> paramT, iterations |-> counters + 1,
          first |-> first]
    ELSE LET step == ParamNewton(
                         ComputeRationalCurveDerivatives(p, U, paramT, P),
                         paramT, G, IsClosed(P), U[1], U[Len(U)])
         IN  ParamStep(step, paramT, counters, p, U, P, G,
                       ParamFirstOutside(first, step))

\* The result: [thrown, paramT: the value returned, iterations: the passes
\* of the Newton loop entered, first: the first step that left the domain].  paramT starts at Constants::DoubleEpsilon,
\* taken as 0, the least knot of the curves of the model; the first sample
\* with a distance replaces it.
GetParamOnCurve(p, U, P, G) ==
    LET samples == Len(P) * p
    IN  ParamLoop(ParamSample([minValue |-> NoLength, paramT |-> R(0)], 0,
                              samples,
                              RDiv(RSub(U[Len(U)], U[1]), R(samples - 1)),
                              p, U, P, G).paramT,
                  0, p, U, P, G, NoStepOutside)

(***************************************************************************)
(* NurbsCurve::ReduceDegree (NurbsCurve.cpp:649-823): Bezier segment by    *)
(* Bezier segment, each reduced by one degree and rejoined.  An error is   *)
(* above the tolerance exactly when the two points it measures differ, as  *)
(* for WithinTolerance; the call returns false at the first such error, so *)
(* the errors vector holds zeros whenever it is read.                      *)
(***************************************************************************)
\* ValidationUtils::IsValidDegreeReduction(degree): greater than one
IsValidDegreeReduction(p) == p > 1

\* (current[i] - alpha * updated[i - 1]) / (1 - alpha), alpha = i / degree
ReductionLeft(p, current, updated, i) ==
    PDiv(PSub(At(current, i, ZeroXYZW),
              PScale(Norm(i, p), At(updated, i - 1, ZeroXYZW))),
         RSub(R(1), Norm(i, p)))

\* (current[i + 1] - (1 - alpha) * updated[i + 1]) / alpha,
\* alpha = (i + 1) / degree
ReductionRight(p, current, updated, i) ==
    PDiv(PSub(At(current, i + 1, ZeroXYZW),
              PScale(RSub(R(1), Norm(i + 1, p)),
                     At(updated, i + 1, ZeroXYZW))),
         Norm(i + 1, p))

\* for (i = from; i <= last; i++) updated[i] = the left formula
RECURSIVE ReductionForward(_, _, _, _, _)
ReductionForward(p, current, updated, i, last) ==
    IF i > last THEN updated
    ELSE ReductionForward(p, current,
                          Put(updated, i,
                              ReductionLeft(p, current, updated, i)),
                          i + 1, last)

\* for (i = from; i >= last; i--) updated[i] = the right formula
RECURSIVE ReductionBackward(_, _, _, _, _)
ReductionBackward(p, current, updated, i, last) ==
    IF i < last THEN updated
    ELSE ReductionBackward(p, current,
                           Put(updated, i,
                               ReductionRight(p, current, updated, i)),
                           i - 1, last)

\* the points of the reduced segment away from the middle: the ends are
\* kept, the others are solved from the left and from the right
ReductionSides(p, current, updated, r, lastLeft) ==
    ReductionBackward(
        p, current,
        ReductionForward(
            p, current,
            Put(Put(updated, 0, At(current, 0, ZeroXYZW)),
                p - 1, At(current, p, ZeroXYZW)),
            1, lastLeft),
        p - 2, r + 1)

\* an even degree: the error is measured at current[r + 1]
ReductionEven(current, sides, r) ==
    [rbpts   |-> sides,
     exceeds |-> ~WithinTolerance(
                     At(current, r + 1, ZeroXYZW),
                     PScale(Norm(1, 2),
                            PAdd(At(sides, r, ZeroXYZW),
                                 At(sides, r + 1, ZeroXYZW))))]

\* an odd degree: updated[r] is the mean of its left and right solutions,
\* the error is their distance
ReductionOdd(left, right, sides, r) ==
    [rbpts   |-> Put(sides, r, PScale(Norm(1, 2), PAdd(left, right))),
     exceeds |-> ~WithinTolerance(left, right)]

\* ValidationUtils::ComputeMaxErrorOfBezierReduction(degree, current,
\* updated): fills updated with the segment of degree - 1 and returns the
\* error of the reduction; exceeds stands for error > tol
ComputeMaxErrorOfBezierReduction(p, current, updated) ==
    LET r == (p - 1) \div 2
    IN  IF p % 2 = 0
        THEN ReductionEven(current,
                           ReductionSides(p, current, updated, r, r), r)
        ELSE ReductionOdd(
                 ReductionLeft(p, current,
                               ReductionSides(p, current, updated, r, r - 1),
                               r),
                 ReductionRight(p, current,
                                ReductionSides(p, current, updated, r, r - 1),
                                r),
                 ReductionSides(p, current, updated, r, r - 1), r)

\* the head of a pass: i = b; the skip over equal knots; mult, oldr, r, lbz
ReduceHead(st, p, U, m) ==
    LET b    == ElevateSkip(U, st.b, m)
        mult == b - st.b + 1
    IN  [i |-> st.b, b |-> b, mult |-> mult, oldr |-> st.r, r |-> p - mult,
         lbz |-> IF st.r > 0 THEN (st.r + 2) \div 2 ELSE 1,
         ua |-> At(U, st.a, R(0)), ubk |-> At(U, b, R(0))]

\* if (r > 0) { for (k = degree; k >= mult; k--) alphas[k - mult - 1] = ...;
\* the knot insertion }: the pass k = mult writes alphas[-1]
ReduceInserted(st, x, p, U) ==
    IF x.r > 0
    THEN ElevateInsert(
             [bpts |-> st.bpts, nextbpts |-> st.nextbpts, ub |-> TRUE],
             1, x.r, x.mult,
             ElevateAlfs(p, U, st.a, x.ua, x.ubk, x.mult), p)
    ELSE [bpts |-> st.bpts, nextbpts |-> st.nextbpts, ub |-> st.ub]

\* while (j - i > k) { alpha; beta; updatedControlPoints[i - 1] = ...;
\*                     rbpts[k] = ...; i++; j--; kj--; }
RECURSIVE ReduceSweep(_, _, _, _, _, _)
ReduceSweep(rs, i, j, kj, k, x) ==
    IF ~(j - i > k) THEN [rs EXCEPT !.i = i, !.j = j, !.kj = kj]
    ELSE LET alpha == RDiv(RSub(x.ua, At(rs.Uh, i - 1, R(0))),
                           RSub(x.ubk, At(rs.Uh, i - 1, R(0))))
             beta  == RDiv(RSub(x.ua, At(rs.Uh, j - k - 1, R(0))),
                           RSub(x.ubk, At(rs.Uh, j - k - 1, R(0))))
             out   == \/ ~InRange(rs.Uh, i - 1) \/ ~InRange(rs.Uh, j - k - 1)
                      \/ ~InRange(rs.Q, i - 1) \/ ~InRange(rs.Q, i - 2)
                      \/ ~InRange(rs.rbpts, k) \/ ~InRange(rs.rbpts, kj)
                      \/ ~InRange(rs.rbpts, kj + 1)
         IN  ReduceSweep(
                 [rs EXCEPT
                    !.Q = Put(rs.Q, i - 1,
                              PDiv(PSub(At(rs.Q, i - 1, ZeroXYZW),
                                        PScale(RSub(R(1), alpha),
                                               At(rs.Q, i - 2, ZeroXYZW))),
                                   alpha)),
                    !.rbpts = Put(rs.rbpts, k,
                                  PDiv(PSub(At(rs.rbpts, kj, ZeroXYZW),
                                            PScale(beta,
                                                   At(rs.rbpts, kj + 1,
                                                      ZeroXYZW))),
                                       RSub(R(1), beta))),
                    !.ub = rs.ub \/ out],
                 i + 1, j - 1, kj - 1, k, x)

\* Br > tol: if (j - i < k) Br = Q[i - 2].Distance(rbpts[kj + 1]);
\* else { delta; A = delta * rbpts[kj + 1] + (1 - delta) * Q[i - 2];
\*        Br = Q[i - 1].Distance(A); }
ReduceBrExceeds(sw, k, x) ==
    IF sw.j - sw.i < k
    THEN ~WithinTolerance(At(sw.Q, sw.i - 2, ZeroXYZW),
                          At(sw.rbpts, sw.kj + 1, ZeroXYZW))
    ELSE ~WithinTolerance(
             At(sw.Q, sw.i - 1, ZeroXYZW),
             Blend(RDiv(RSub(x.ua, At(sw.Uh, sw.i - 1, R(0))),
                        RSub(x.ubk, At(sw.Uh, sw.i - 1, R(0)))),
                   At(sw.rbpts, sw.kj + 1, ZeroXYZW),
                   At(sw.Q, sw.i - 2, ZeroXYZW)))

\* the indices Br is read at
ReduceBrOut(sw, k) ==
    \/ ~InRange(sw.Q, sw.i - 2) \/ ~InRange(sw.rbpts, sw.kj + 1)
    \/ (~(sw.j - sw.i < k)
            /\ (~InRange(sw.Q, sw.i - 1) \/ ~InRange(sw.Uh, sw.i - 1)))

\* K = a + oldr - k; q = (2 * degree - k + 1) / 2; L = K - q
ReduceL(a, oldr, k, p) == (a + oldr - k) - ((2 * p - k + 1) \div 2)

\* for (k = 0; k < oldr; k++) { i = first; j = last; kj = j - kind; the
\* sweep; Br; for (ii = L; ii <= a; ii++) { errors[ii] += Br;
\* if (IsGreaterThan(errors[ii], tol)) return false; } first--; last--; }
RECURSIVE ReduceRemove(_, _, _, _, _, _, _, _)
ReduceRemove(rs, k, first, last, x, a, p, m) ==
    IF k >= x.oldr \/ rs.failed THEN rs
    ELSE LET sw == ReduceSweep(rs, first, last, last - rs.kind, k, x)
             L  == ReduceL(a, x.oldr, k, p)
         IN  ReduceRemove(
                 [sw EXCEPT
                    !.ub = sw.ub \/ ReduceBrOut(sw, k)
                                 \/ (L <= a /\ (L < 0 \/ a >= m)),
                    !.failed = L <= a /\ ReduceBrExceeds(sw, k, x)],
                 k + 1, first - 1, last - 1, x, a, p, m)

\* if (oldr > 0) { first = kind; last = kind; the removal; cind = i - 1; }
\* where i is the i of the pass, the b it started at
ReduceRemoved(st, x, red, ubIn, p, m) ==
    LET rs == [Q |-> st.Q, Uh |-> st.Uh, rbpts |-> red.rbpts, kind |-> st.kind,
               i |-> 0, j |-> 0, kj |-> 0, ub |-> ubIn, failed |-> FALSE,
               cind |-> st.cind]
    IN  IF x.oldr > 0
        THEN [ReduceRemove(rs, 0, st.kind, st.kind, x, st.a, p, m)
                 EXCEPT !.cind = x.i - 1]
        ELSE rs

\* if (a != degree) for (i = 0; i < ph - oldr; i++)
\*     updatedKnotVector[kind++] = knotVector[a];
ReduceKnotCount(st, x, p) ==
    IF st.a # p THEN Max(p - 1 - x.oldr, 0) ELSE 0

\* v[from], ..., v[from + count - 1] = x
PutRun(v, from, count, x) ==
    IF Len(v) = 0 THEN v
    ELSE Tuple([c \in 1..Len(v) |->
                  IF from < c /\ c <= from + count THEN x ELSE v[c]])

\* for (i = lbz; i <= ph; i++) updatedControlPoints[cind++] = rbpts[i];
ReducePoints(Q, cind, lbz, ph, rbpts) ==
    IF Len(Q) = 0 THEN Q
    ELSE Tuple([c \in 1..Len(Q) |->
                  IF cind < c /\ c <= cind + (ph - lbz + 1)
                  THEN At(rbpts, lbz + (c - 1 - cind), ZeroXYZW)
                  ELSE Q[c]])

\* for (i = 0; i < r; i++) bpts[i] = nextbpts[i];
\* for (i = r; i <= degree; i++) bpts[i] = controlPoints[b - degree + i];
ReduceNextBpts(bs, x, p, P) ==
    Tuple([c \in 1..(p + 1) |->
             IF c - 1 < x.r THEN At(bs.nextbpts, c - 1, ZeroXYZW)
             ELSE At(P, x.b - p + c - 1, ZeroXYZW)])

\* the writes of the tail of a pass that fall outside their vectors
ReduceTailOut(st, x, rm, bs, p, P, m) ==
    LET nk == ReduceKnotCount(st, x, p)
        np == Max(p - 1 - x.lbz + 1, 0)
    IN  \/ (nk > 0 /\ (st.kind < 0 \/ st.kind + nk > Len(rm.Uh)))
        \/ (np > 0 /\ (rm.cind < 0 \/ rm.cind + np > Len(rm.Q)))
        \/ (x.b < m /\ (x.r < 0 \/ x.b - p + x.r < 0 \/ ~InRange(P, x.b)))
        \/ (x.b >= m /\ st.kind + nk + p > Len(rm.Uh))

\* the tail of a pass: the knots and the control points of the segment are
\* written; then the next segment is set up, or the end knots are written
ReduceTail(st, x, rm, bs, p, U, P, m) ==
    LET nk   == ReduceKnotCount(st, x, p)
        kind == st.kind + nk
        Uh   == PutRun(rm.Uh, st.kind, nk, x.ua)
        Q    == ReducePoints(rm.Q, rm.cind, x.lbz, p - 1, rm.rbpts)
        cind == rm.cind + Max(p - 1 - x.lbz + 1, 0)
        out  == rm.ub \/ ReduceTailOut(st, x, rm, bs, p, P, m)
    IN  IF x.b < m
        THEN [st EXCEPT !.Q = Q, !.Uh = Uh, !.rbpts = rm.rbpts,
                        !.bpts = ReduceNextBpts(bs, x, p, P),
                        !.nextbpts = bs.nextbpts,
                        !.a = x.b, !.b = x.b + 1, !.r = x.r,
                        !.kind = kind, !.cind = cind, !.ub = out]
        ELSE [st EXCEPT !.Q = Q, !.Uh = PutRun(Uh, kind, p, x.ubk),
                        !.rbpts = rm.rbpts, !.bpts = bs.bpts,
                        !.nextbpts = bs.nextbpts,
                        !.b = x.b, !.r = x.r,
                        !.kind = kind, !.cind = cind, !.ub = out]

\* the removal and what follows it, unless an error was above the tolerance
ReduceJoined(st, x, rm, bs, p, U, P, m) ==
    IF rm.failed
    THEN [st EXCEPT !.Q = rm.Q, !.Uh = rm.Uh, !.ub = rm.ub, !.ret = "false"]
    ELSE ReduceTail(st, x, rm, bs, p, U, P, m)

\* maxError = ComputeMaxErrorOfBezierReduction(degree, bpts, rbpts);
\* errors[a] += maxError; if (IsGreaterThan(errors[a], tol)) return false;
ReduceReduced(st, x, red, bs, p, U, P, m) ==
    IF red.exceeds
    THEN [st EXCEPT !.ub = bs.ub, !.ret = "false"]
    ELSE ReduceJoined(st, x, ReduceRemoved(st, x, red, bs.ub, p, m), bs,
                      p, U, P, m)

\* the segment after the knot insertion
ReduceSegment(st, x, bs, p, U, P, m) ==
    ReduceReduced(st, x,
                  ComputeMaxErrorOfBezierReduction(p, bs.bpts, st.rbpts),
                  bs, p, U, P, m)

\* one pass of while (b < m)
ReducePass(st, x, p, U, P, m) ==
    ReduceSegment(st, x, ReduceInserted(st, x, p, U), p, U, P, m)

\* while (b < m) { ... } return true;
RECURSIVE ReduceLoop(_, _, _, _, _)
ReduceLoop(st, p, U, P, m) ==
    IF st.ret # "run" THEN st
    ELSE IF ~(st.b < m) THEN [st EXCEPT !.ret = "true"]
    ELSE ReduceLoop(ReducePass(st, ReduceHead(st, p, U, m), p, U, P, m),
                    p, U, P, m)

\* updatedControlPoints.resize(2 * n); updatedControlPoints[0] =
\* controlPoints[0]; updatedKnotVector.resize(2 * n + ph + 1);
\* for (i = 0; i <= ph; i++) updatedKnotVector[i] = updatedKnotVector[0];
\* bpts[i] = controlPoints[i]
ReduceStart(p, P, outU, outP) ==
    LET n  == Len(P) - 1
        Uh == Resize(outU, 2 * n + p, R(0))
    IN  [Q |-> Put(Resize(outP, 2 * n, ZeroXYZW), 0, P[1]),
         Uh |-> PutRun(Uh, 0, p, At(Uh, 0, R(0))),
         bpts |-> Tuple([c \in 1..(p + 1) |-> At(P, c - 1, ZeroXYZW)]),
         nextbpts |-> Fresh(p - 1, ZeroXYZW),
         rbpts |-> Fresh(p, ZeroXYZW),
         a |-> p, b |-> p + 1, r |-> -1, kind |-> p, cind |-> 1,
         ub |-> 2 * n < 1 \/ p > n, ret |-> "run"]

\* ReduceDegree on valid arguments: the buffers as the call leaves them and
\* the value it returns
ReduceDegree(p, U, P, outU, outP) ==
    LET st == ReduceLoop(ReduceStart(p, P, outU, outP), p, U, P,
                         Len(P) + p)
    IN  [U |-> st.Uh, P |-> st.Q, ub |-> st.ub, ret |-> st.ret = "true"]

(***************************************************************************)
(* NurbsCurve::ToUnclampCurve (NurbsCurve.cpp:2225-2250): no validation,   *)
(* no output buffers; knotVector and controlPoints are references that are *)
(* written where they are.  degree is unsigned, so degree - 2 wraps for a  *)
(* degree below two.                                                       *)
(***************************************************************************)
\* for (j = i; j >= 0; j--) { alfa = (knotVector[degree] - knotVector[k]) /
\*     (knotVector[degree + j + 1] - knotVector[k]);
\*     controlPoints[j] = (controlPoints[j] - alfa * controlPoints[j + 1])
\*                        / (1.0 - alfa); k = k - 1; }
RECURSIVE UnclampLeftSweep(_, _, _, _)
UnclampLeftSweep(cs, j, k, p) ==
    IF j < 0 THEN cs
    ELSE LET alfa == RDiv(RSub(At(cs.U, p, R(0)), At(cs.U, k, R(0))),
                          RSub(At(cs.U, p + j + 1, R(0)), At(cs.U, k, R(0))))
             out  == \/ ~InRange(cs.U, p) \/ ~InRange(cs.U, k)
                     \/ ~InRange(cs.U, p + j + 1)
                     \/ ~InRange(cs.P, j) \/ ~InRange(cs.P, j + 1)
         IN  UnclampLeftSweep(
                 [cs EXCEPT
                    !.P = Put(cs.P, j,
                              PDiv(PSub(At(cs.P, j, ZeroXYZW),
                                        PScale(alfa,
                                               At(cs.P, j + 1, ZeroXYZW))),
                                   RSub(R(1), alfa))),
                    !.ub = cs.ub \/ out],
                 j - 1, k - 1, p)

\* for (i = 0; i < degree - 2; i++) { knotVector[degree - i - 1] =
\*     knotVector[degree - i] - knotVector[n - i]; k = degree - 1; the sweep }
RECURSIVE UnclampLeft(_, _, _, _, _)
UnclampLeft(cs, i, last, p, n) ==
    IF i > last THEN cs
    ELSE LET out == \/ ~InRange(cs.U, p - i - 1) \/ ~InRange(cs.U, p - i)
                    \/ ~InRange(cs.U, n - i)
             U   == Put(cs.U, p - i - 1,
                        RSub(At(cs.U, p - i, R(0)), At(cs.U, n - i, R(0))))
         IN  UnclampLeft(
                 UnclampLeftSweep([cs EXCEPT !.U = U, !.ub = cs.ub \/ out],
                                  i, p - 1, p),
                 i + 1, last, p, n)

\* knotVector[0] = knotVector[1] - (knotVector[n + degree + 2]
\*                                  - knotVector[n - degree + 1]);
\* knotVector has n + degree + 2 elements: the first read is one past its end
UnclampFirstKnot(cs, p, n) ==
    [cs EXCEPT
       !.U = Put(cs.U, 0,
                 RSub(At(cs.U, 1, R(0)),
                      RSub(At(cs.U, n + p + 2, R(0)),
                           At(cs.U, n - p + 1, R(0))))),
       !.ub = \/ cs.ub \/ ~InRange(cs.U, 0) \/ ~InRange(cs.U, 1)
              \/ ~InRange(cs.U, n + p + 2) \/ ~InRange(cs.U, n - p + 1)]

\* for (j = i; j >= 0; j--) { alfa = (knotVector[n + 1] - knotVector[n - j])
\*     / (knotVector[n - j + i + 2] - knotVector[n - j]);
\*     controlPoints[n - j] = (controlPoints[n - j]
\*         - (1.0 - alfa) * controlPoints[n - j - 1]) / alfa; }
RECURSIVE UnclampRightSweep(_, _, _, _)
UnclampRightSweep(cs, j, i, n) ==
    IF j < 0 THEN cs
    ELSE LET alfa == RDiv(RSub(At(cs.U, n + 1, R(0)), At(cs.U, n - j, R(0))),
                          RSub(At(cs.U, n - j + i + 2, R(0)),
                               At(cs.U, n - j, R(0))))
             out  == \/ ~InRange(cs.U, n + 1) \/ ~InRange(cs.U, n - j)
                     \/ ~InRange(cs.U, n - j + i + 2)
                     \/ ~InRange(cs.P, n - j) \/ ~InRange(cs.P, n - j - 1)
         IN  UnclampRightSweep(
                 [cs EXCEPT
                    !.P = Put(cs.P, n - j,
                              PDiv(PSub(At(cs.P, n - j, ZeroXYZW),
                                        PScale(RSub(R(1), alfa),
                                               At(cs.P, n - j - 1,
                                                  ZeroXYZW))),
                                   alfa)),
                    !.ub = cs.ub \/ out],
                 j - 1, i, n)

\* for (i = 0; i <= degree - 2; i++) { knotVector[n + i + 2] =
\*     knotVector[n + i + 1] + (knotVector[degree + i + 1]
\*                              - knotVector[degree + i]); the sweep }
RECURSIVE UnclampRight(_, _, _, _, _)
UnclampRight(cs, i, last, p, n) ==
    IF i > last THEN cs
    ELSE LET out == \/ ~InRange(cs.U, n + i + 2) \/ ~InRange(cs.U, n + i + 1)
                    \/ ~InRange(cs.U, p + i + 1) \/ ~InRange(cs.U, p + i)
             U   == Put(cs.U, n + i + 2,
                        RAdd(At(cs.U, n + i + 1, R(0)),
                             RSub(At(cs.U, p + i + 1, R(0)),
                                  At(cs.U, p + i, R(0)))))
         IN  UnclampRight(
                 UnclampRightSweep([cs EXCEPT !.U = U, !.ub = cs.ub \/ out],
                                   i, i, n),
                 i + 1, last, p, n)

\* knotVector[n + degree + 1] = knotVector[n + degree]
\*     + (knotVector[2 * degree] - knotVector[2 * degree - 1]);
UnclampLastKnot(cs, p, n) ==
    [cs EXCEPT
       !.U = Put(cs.U, n + p + 1,
                 RAdd(At(cs.U, n + p, R(0)),
                      RSub(At(cs.U, 2 * p, R(0)),
                           At(cs.U, 2 * p - 1, R(0))))),
       !.ub = \/ cs.ub \/ ~InRange(cs.U, n + p + 1) \/ ~InRange(cs.U, n + p)
              \/ ~InRange(cs.U, 2 * p) \/ ~InRange(cs.U, 2 * p - 1)]

\* the curve as the call leaves it.  Below degree two the first loop has
\* 4294967295 or more passes: the pass i = 1 writes knotVector[degree - 2]
\* with the index wrapped, and what follows it is not modelled.
ToUnclampCurve(p, U, P) ==
    LET n  == Len(P) - 1
        cs == [U |-> U, P |-> P, ub |-> FALSE]
    IN  IF p < 2
        THEN [UnclampLeft(cs, 0, 0, p, n) EXCEPT !.ub = TRUE]
        ELSE UnclampLastKnot(
                 UnclampRight(
                     UnclampFirstKnot(UnclampLeft(cs, 0, p - 3, p, n), p, n),
                     0, p - 2, p, n),
                 p, n)

(***************************************************************************)
(* BezierSurface::GetPointOnSurfaceByDeCasteljau and                       *)
(* GetPointOnRationalSurfaceByDeCasteljau: Algorithm A1.7 of The NURBS     *)
(* Book, which the header names.  A control net is a sequence of n + 1     *)
(* rows of m + 1 points; a point is a tuple of coordinates, three for XYZ  *)
(* and four for XYZW.                                                      *)
(***************************************************************************)
\* a mutant of Lerp: the two weights are exchanged
LerpExchanged(t, a, b) ==
    Tuple([c \in 1..Len(a) |->
             RAdd(RMul(t, a[c]), RMul(RSub(R(1), t), b[c]))])

\* (1.0 - t) * a + t * b
Lerp(t, a, b) ==
    Tuple([c \in 1..Len(a) |->
             RAdd(RMul(RSub(R(1), t), a[c]), RMul(t, b[c]))])

\* for (i = 0; i <= n - k; i++) Q[i] = (1.0 - u) * Q[i] + u * Q[i + 1]
DeCasteljauSweep(Q, n, k, u) ==
    Tuple([x \in 1..(n + 1) |->
             IF x - 1 <= n - k THEN Lerp(u, Q[x], Q[x + 1]) ELSE Q[x]])

\* for (k = 1; k <= n; k++) the sweep
RECURSIVE DeCasteljauLoop(_, _, _, _)
DeCasteljauLoop(Q, n, k, u) ==
    IF k > n THEN Q
    ELSE DeCasteljauLoop(DeCasteljauSweep(Q, n, k, u), n, k + 1, u)

\* Algorithm A1.5: the point at u of the Bezier curve of the n + 1 points P
DeCasteljau1(P, n, u) == DeCasteljauLoop(P, n, 1, u)[1]

\* column j of a net, 0-based
NetColumn(P, j) == Tuple([x \in 1..Len(P) |-> P[x][j + 1]])

\* Algorithm A1.7: if (n <= m) the m + 1 columns are evaluated at u and the
\* points found at v; else the n + 1 rows at v and the points found at u
DeCasteljau2(n, m, P, u, v) ==
    IF n <= m
    THEN DeCasteljau1(
             Tuple([x \in 1..(m + 1) |->
                      DeCasteljau1(NetColumn(P, x - 1), n, u)]), m, v)
    ELSE DeCasteljau1(
             Tuple([x \in 1..(n + 1) |-> DeCasteljau1(P[x], m, v)]), n, u)

\* GetPointOnSurfaceByDeCasteljau(degreeU, degreeV, controlPoints, uv)
GetPointOnSurfaceByDeCasteljau(n, m, P, u, v) == DeCasteljau2(n, m, P, u, v)

\* GetPointOnRationalSurfaceByDeCasteljau(degreeU, degreeV, controlPoints,
\* uv): the same on the four coordinates of XYZW
GetPointOnRationalSurfaceByDeCasteljau(n, m, P, u, v) ==
    DeCasteljau2(n, m, P, u, v)

(***************************************************************************)
(* EquallyTessellate                                                       *)
(***************************************************************************)
\* uniqueKv.erase(unique(...), end): runs of equal knots reduced to one
RECURSIVE Unique(_)
Unique(U) ==
    IF Len(U) <= 1 THEN U
    ELSE LET rest == Unique(SubSeq(U, 1, Len(U) - 1))
         IN  IF U[Len(U)] = rest[Len(rest)] THEN rest
             ELSE Append(rest, U[Len(U)])

\* int intervals = 100
intervals == 100

\* for (j = 0; j < intervals; j++) {
\*     correspondingKnots.emplace_back(currentU + step * i);
\*     tessellatedPoints.emplace_back(GetPointOnCurve(degree, knotVector,
\*                                    correspondingKnots[i], controlPoints)); }
\* The parameter and the point do not depend on j; a GetPointOnCurve that
\* throws ends the call in the first pass, after the first emplace_back.
TessellateInterval(st, i, uniqueKv, p, U, P) ==
    LET currentU == At(uniqueKv, i, R(0))
        nextU    == At(uniqueKv, i - 1, R(0))
        step     == RDiv(RSub(nextU, currentU), R(intervals))
        u        == RAdd(currentU, RMul(step, R(i)))
        first    == Append(st.knots, u)
        point    == GetPointOnCurve(p, U, At(first, i, R(0)), P)
        out      == st.ub \/ ~InRange(uniqueKv, i) \/ ~InRange(uniqueKv, i - 1)
                          \/ ~InRange(first, i)
    IN  IF point = Thrown
        THEN [knots |-> first, points |-> st.points, thrown |-> TRUE,
              ub |-> out]
        ELSE [knots |-> st.knots \o Copies(intervals, u),
              points |-> st.points \o Copies(intervals, point),
              thrown |-> FALSE, ub |-> out]

\* for (int i = 0; i < size - 1; i++) { ... }
RECURSIVE TessellateLoop(_, _, _, _, _, _)
TessellateLoop(st, i, uniqueKv, p, U, P) ==
    IF i >= Len(uniqueKv) - 1 \/ st.thrown THEN st
    ELSE TessellateLoop(TessellateInterval(st, i, uniqueKv, p, U, P),
                        i + 1, uniqueKv, p, U, P)

\* The result: [knots: correspondingKnots, points: tessellatedPoints, thrown,
\* ub]; both outputs are appended to what the caller's buffers hold.
EquallyTessellate(p, U, P, tessellatedPoints, correspondingKnots) ==
    LET lp == TessellateLoop([knots |-> correspondingKnots,
                              points |-> tessellatedPoints,
                              thrown |-> FALSE, ub |-> FALSE],
                             0, Unique(U), p, U, P)
    IN  IF lp.thrown THEN lp
        ELSE [knots |-> Append(lp.knots, U[Len(U)]),
              points |-> Append(lp.points, ToXYZ(P[Len(P)])),
              thrown |-> FALSE, ub |-> lp.ub]

(***************************************************************************)
(* LocalRationalQuadraticCurveApproximation.  The call is made with what   *)
(* its callees gave: rays, the outcome of Intersection::ComputeRays on the *)
(* end tangents ("Behind": intersecting with alf1 <= 0 or alf2 >= 0); for  *)
(* every intermediate point the outcome of its ComputeRays and             *)
(* CreateOneConicArc ("Miss": not intersecting, "Outside": a parameter     *)
(* outside its range, "Failed": no arc, "Arc": the weight w); within:      *)
(* every tested point is within maxError of the arc; made: what            *)
(* BezierCurve::ComputerMiddleControlPointsOnQuadraticCurve returned.      *)
(***************************************************************************)
\* XYZW(R, w): the intersection of the rays with the weight w
RaysFit(w) == [kind |-> "rays", index |-> 0, w |-> w]

\* XYZW((startPoint + endPoint) / 2, 1)
MidpointFit == [kind |-> "midpoint", index |-> 0, w |-> R(1)]

\* the point the Bezier construction appends
BezierFit == [kind |-> "bezier", index |-> 0, w |-> R(1)]

\* One pass of for (i = startPointIndex + 1; i <= endPointIndex - 1; i++):
\* the division of s, the weight, the test of the deviation and both
\* returns are inside the body of the loop, so every pass returns.
LocalPass(s, arc, count, within, middleControlPoints) ==
    IF arc.kind = "Outside" \/ arc.kind = "Failed"
    THEN [ret |-> FALSE, P |-> middleControlPoints]
    ELSE LET summed   == IF arc.kind = "Arc"
                         THEN RAdd(s, RDiv(arc.w, RAdd(R(1), arc.w)))
                         ELSE s
             averaged == RDiv(summed, R(count))
             w        == RDiv(averaged, RSub(R(1), averaged))
         IN  IF count >= 2 /\ ~within
             THEN [ret |-> FALSE, P |-> middleControlPoints]
             ELSE [ret |-> TRUE, P |-> Append(middleControlPoints, RaysFit(w))]

\* The result: [ret: the value returned, P: middleControlPoints]
LocalRationalQuadraticCurveApproximation(rays, arcs, within, made, middleControlPoints) ==
    IF Len(arcs) = 0
    THEN [ret |-> made,
          P |-> IF made THEN Append(middleControlPoints, BezierFit)
                ELSE middleControlPoints]
    ELSE IF rays = "Coincident"
    THEN [ret |-> TRUE, P |-> Append(middleControlPoints, MidpointFit)]
    ELSE IF rays = "Skew" \/ rays = "Parallel" \/ rays = "Behind"
    THEN [ret |-> FALSE, P |-> middleControlPoints]
    ELSE LocalPass(R(0), arcs[1], Len(arcs), within, middleControlPoints)

(***************************************************************************)
(* Reverse.  ReverseKnotVector and ReverseControlPoints take their output  *)
(* by value: the vector they fill is their own copy of the argument.       *)
(***************************************************************************)
\* for (i = 1; i < size; i++) reversedKnotVector[i] =
\*     reversedKnotVector[i - 1] + (knotVector[size - i] - knotVector[size - i - 1])
RECURSIVE ReverseKnotLoop(_, _, _)
ReverseKnotLoop(V, i, U) ==
    IF i >= Len(U) THEN V
    ELSE ReverseKnotLoop(
             Put(V, i, RAdd(At(V, i - 1, R(0)),
                            RSub(At(U, Len(U) - i, R(0)),
                                 At(U, Len(U) - i - 1, R(0))))),
             i + 1, U)

\* The result: [copy: the local reversedKnotVector when the function
\* returns, ub]; knotVector[0] and knotVector[size - 1] are read first
ReverseKnotVector(U, reversedKnotVector) ==
    [copy |-> ReverseKnotLoop(
                  Put(Resize(reversedKnotVector, Len(U), R(0)), 0,
                      At(U, 0, R(0))),
                  1, U),
     ub |-> Len(U) = 0]

\* std::reverse(begin, end)
Reversed(v) == Tuple([i \in 1..Len(v) |-> v[Len(v) + 1 - i]])

\* The result: the local reversedControlPoints when the function returns
ReverseControlPoints(P, reversedControlPoints) ==
    [copy |-> Reversed(P), ub |-> FALSE]

\* The result: [U: the caller's reversedKnotVector, P: the caller's
\* reversedControlPoints, ub]: the callees' copies are destroyed on return
\* and the caller's vectors are what they were.
Reverse(U, P, reversedKnotVector, reversedControlPoints) ==
    [U |-> reversedKnotVector, P |-> reversedControlPoints,
     ub |-> \/ ReverseKnotVector(U, reversedKnotVector).ub
            \/ ReverseControlPoints(P, reversedControlPoints).ub]

\* the callees with the outputs taken by reference
ReverseByReference(U, P, reversedKnotVector, reversedControlPoints) ==
    [U |-> ReverseKnotVector(U, reversedKnotVector).copy,
     P |-> ReverseControlPoints(P, reversedControlPoints).copy,
     ub |-> \/ ReverseKnotVector(U, reversedKnotVector).ub
            \/ ReverseControlPoints(P, reversedControlPoints).ub]

(***************************************************************************)
(* The caller's state.                                                     *)
(***************************************************************************)
VARIABLES
    degree,         \* the input curve: degree p
    knotVector,     \*   knot vector U
    controlPoints,  \*   control points P
    outKnots,       \* the caller's output buffers
    outPoints,
    call,           \* the call made: [op, u, times, X]
    status,         \* "none", "ok", "throw", "crash" or "hang"
    ub,             \* the call indexed a vector out of range
    result,         \* the point the call returned
    segments,       \* the Bezier segments the call returned
    flags,          \* RemoveKnot: the remflag of each attempt
    arcPoints,      \* CreateArc: the caller's control point buffer
    arc,            \* CreateArc: [narcs, degree, ret]
    conic,          \* CreateOpenConic: [nsegs, degree]
    fitPoints,      \* the fitting operations: the caller's control point buffer
    newton,         \* GetParamOnCurve: [iterations, paramT, first]
    ret             \* the boolean the call returned

vars == <<degree, knotVector, controlPoints, outKnots, outPoints, call,
          status, ub, result, segments, flags, arcPoints, arc, conic,
          fitPoints, newton, ret>>

arcOut == <<arcPoints, arc>>

returned == <<result, segments, flags>>

built == <<conic, fitPoints, newton, ret>>

curve == <<degree, knotVector, controlPoints>>

(***************************************************************************)
(* The curves and arguments the calls are made with.                       *)
(***************************************************************************)
IsSorted(q) == \A i \in 1..(Len(q) - 1) : q[i] <= q[i + 1]

Count(q, x) == Cardinality({i \in 1..Len(q) : q[i] = x})

\* interior knots: integers strictly inside the domain, each at most p times
InteriorKnots(p) ==
    UNION {{q \in [1..len -> 1..(MaxKnot - 1)] :
               IsSorted(q) /\ \A i \in 1..len : Count(q, q[i]) <= p}
           : len \in 0..MaxInterior}

\* a clamped knot vector: p+1 copies of 0, the interior knots, p+1 of MaxKnot
Clamped(p, interior) ==
    Tuple([i \in 1..(2 * p + 2 + Len(interior)) |->
             IF i <= p + 1 THEN R(0)
             ELSE IF i <= p + 1 + Len(interior) THEN R(interior[i - p - 1])
             ELSE R(MaxKnot)])

\* the control points of family sh: weights 1 (sh = 1) or varying
ShapeWeight(sh, i) == 1 + ((i * (sh - 1)) % 3)

ShapePoint(sh, i) ==
    LET w == ShapeWeight(sh, i)
    IN  <<R((i * i + sh) * w), R(i * sh * w), R((i % 2) * w), R(w)>>

ShapePoints(sh, n) == Tuple([i \in 1..n |-> ShapePoint(sh, i - 1)])

\* parameters: the integers and the half-integers of the domain
Params == {Norm(h, 2) : h \in 0..(2 * MaxKnot)}

\* the parameters a curve is sampled at: the quarters of the domain
Samples == {Norm(h, 4) : h \in 0..(4 * MaxKnot)}

\* the sorted lists of n parameters
RECURSIVE SortedLists(_)
SortedLists(n) ==
    IF n = 0 THEN {<<>>}
    ELSE {Append(qx[1], qx[2]) :
            qx \in {c \in SortedLists(n - 1) \X Params :
                      Len(c[1]) = 0 \/ RLeq(c[1][Len(c[1])], c[2])}}

\* the lists RefineKnotVector is called with
InsertLists == UNION {SortedLists(len) : len \in 1..MaxInsert}

NoCall ==
    [op |-> "none", u |-> R(0), v |-> R(0), times |-> 0, X |-> <<>>,
     p |-> 0, shape |-> 0, size |-> 0, count |-> 0, rays |-> "none"]

Outcomes(undefined) == IF undefined THEN {"ok", "crash"} ELSE {"ok"}

\* The caller makes one call on the curve and the buffers it starts with.
Running == status = "none"

\* what an earlier use may have left in the caller's output buffers
StaleKnots == Tuple([i \in 1..StaleLen |-> R(7)])

\* what an earlier fit may have left in the control point buffer
StaleFit == [kind |-> "stale", index |-> 0, w |-> R(7)]

StalePoints ==
    Tuple([i \in 1..StaleLen |-> <<R(7), R(7), R(7), R(7)>>])

\* the curves the validation of a call rejects: of degree zero, without
\* knots, with a knot below the one before it, without control points, with
\* one control point too many
InvalidCurves ==
    {[degree |-> 0, knotVector |-> Clamped(1, <<>>),
      controlPoints |-> ShapePoints(1, 3)]}
    \cup UNION {{[degree |-> d, knotVector |-> <<>>,
                  controlPoints |-> ShapePoints(1, d + 1)],
                 [degree |-> d,
                  knotVector |-> Put(Clamped(d, <<>>), 0, R(MaxKnot)),
                  controlPoints |-> ShapePoints(1, d + 1)],
                 [degree |-> d, knotVector |-> Copies(d + 1, R(0)),
                  controlPoints |-> <<>>],
                 [degree |-> d, knotVector |-> Clamped(d, <<>>),
                  controlPoints |-> ShapePoints(1, d + 2)]}
                : d \in 1..MaxDegree}

\* the curve of the call is a clamped curve of one of the families
ValidCurveGiven ==
    /\ degree \in 1..MaxDegree
    /\ \E interior \in InteriorKnots(degree), sh \in 1..NumShapes :
          /\ knotVector = Clamped(degree, interior)
          /\ controlPoints = ShapePoints(sh, degree + 1 + Len(interior))

\* the curve of the call is one the validation rejects
InvalidCurveGiven ==
    \E c \in InvalidCurves :
       /\ degree = c.degree
       /\ knotVector = c.knotVector
       /\ controlPoints = c.controlPoints

\* the caller's buffers, empty or filled by an earlier use, and no call yet
NothingCalled ==
    /\ \/ outKnots = <<>> /\ outPoints = <<>>
       \/ outKnots = StaleKnots /\ outPoints = StalePoints
    /\ call = NoCall
    /\ status = "none"
    /\ ub = FALSE
    /\ result = <<>>
    /\ segments = <<>>
    /\ flags = <<>>
    /\ arcPoints = Copies(Len(outPoints), StalePoint)
    /\ arc = [narcs |-> 0, degree |-> 0, ret |-> FALSE]
    /\ conic = [nsegs |-> 0, degree |-> 0]
    /\ fitPoints = Copies(Len(outPoints), StaleFit)
    /\ newton = [iterations |-> 0, paramT |-> R(0), first |-> NoStepOutside]
    /\ ret = FALSE

Init == ValidCurveGiven /\ NothingCalled

\* the caller passes any curve, valid or not
InitAnyCurve == (ValidCurveGiven \/ InvalidCurveGiven) /\ NothingCalled

\* The polyline of family sh with the simple interior knots `interior`,
\* written as a curve of degree 2: every interior knot twice, and between
\* two points of the polyline their midpoint.
PolylineInDegree2(sh, interior) ==
    LET Q == ShapePoints(sh, Len(interior) + 2)
    IN  [knotVector |->
             Tuple([i \in 1..(6 + 2 * Len(interior)) |->
                      IF i <= 3 THEN R(0)
                      ELSE IF i <= 3 + 2 * Len(interior)
                      THEN R(interior[(i - 2) \div 2])
                      ELSE R(MaxKnot)]),
         controlPoints |->
             Tuple([i \in 1..(2 * Len(Q) - 1) |->
                      IF i % 2 = 1 THEN Q[(i + 1) \div 2]
                      ELSE PDiv(PAdd(Q[i \div 2], Q[(i \div 2) + 1]),
                                R(2))])]

\* the curve of the call is a polyline written in degree 2
ReducibleCurveGiven ==
    /\ degree = 2
    /\ \E interior \in InteriorKnots(1), sh \in 1..NumShapes :
          /\ knotVector = PolylineInDegree2(sh, interior).knotVector
          /\ controlPoints = PolylineInDegree2(sh, interior).controlPoints

\* the caller passes a curve of the families or a polyline written in
\* degree 2
InitWithReducible ==
    (ValidCurveGiven \/ ReducibleCurveGiven) /\ NothingCalled

(***************************************************************************)
(* What a call that ran hands back: r is what the operation computed.      *)
(***************************************************************************)
\* a curve written to the output buffers
ReturnsCurve(r) ==
    /\ ub' = r.ub
    /\ status' \in Outcomes(r.ub)
    /\ outKnots' = r.U
    /\ outPoints' = r.P

\* a point returned by value
ReturnsPoint(r) ==
    /\ ub' = r.ub
    /\ status' \in Outcomes(r.ub)
    /\ result' = r.point

(***************************************************************************)
(* A call of InsertKnot(degree, knotVector, controlPoints, u, times,       *)
(* outKnots, outPoints)                                                    *)
(***************************************************************************)
CallInsertKnot(u, times) ==
    /\ Running
    /\ call' = [NoCall EXCEPT !.op = "InsertKnot", !.u = u, !.times = times]
    /\ UNCHANGED <<curve, arcOut, built, returned>>
    /\ IF ~ValidCurveArguments(degree, knotVector, controlPoints) \/ times <= 0
       THEN /\ status' = "throw"
            /\ ub' = FALSE
            /\ UNCHANGED <<outKnots, outPoints>>
       ELSE ReturnsCurve(InsertKnot(degree, knotVector, controlPoints, u,
                                    times, outKnots, outPoints))

(***************************************************************************)
(* A call of GetPointOnCurveByCornerCut(degree, knotVector, t,             *)
(* controlPoints)                                                          *)
(***************************************************************************)
CallCornerCut(t) ==
    /\ Running
    /\ call' = [NoCall EXCEPT !.op = "CornerCut", !.u = t]
    /\ UNCHANGED <<curve, arcOut, built, outKnots, outPoints, segments, flags>>
    /\ IF \/ ~ValidCurveArguments(degree, knotVector, controlPoints)
          \/ ~InParamRange(knotVector, t)
       THEN /\ status' = "throw"
            /\ ub' = FALSE
            /\ result' = <<>>
       ELSE ReturnsPoint(GetPointOnCurveByCornerCut(degree, knotVector, t,
                                                    controlPoints))

(***************************************************************************)
(* A call of RefineKnotVector(degree, knotVector, controlPoints, X,        *)
(* outKnots, outPoints)                                                    *)
(***************************************************************************)
CallRefineKnotVector(X) ==
    /\ Running
    /\ call' = [NoCall EXCEPT !.op = "RefineKnotVector", !.X = X]
    /\ UNCHANGED <<curve, arcOut, built, returned>>
    /\ IF \/ ~ValidCurveArguments(degree, knotVector, controlPoints)
          \/ Len(X) <= 0
       THEN /\ status' = "throw"
            /\ ub' = FALSE
            /\ UNCHANGED <<outKnots, outPoints>>
       ELSE ReturnsCurve(RefineKnotVector(degree, knotVector, controlPoints,
                                          X, outKnots, outPoints))

(***************************************************************************)
(* A call of DecomposeToBeziers(degree, knotVector, controlPoints)         *)
(***************************************************************************)
\* a call that loops for ever never returns; one that made an out-of-range
\* access may also have crashed
DecomposeOutcomes(r) ==
    (IF r.ub THEN {"crash"} ELSE {}) \cup {IF r.hang THEN "hang" ELSE "ok"}

\* the segments returned by value
ReturnsSegments(r) ==
    /\ ub' = r.ub
    /\ status' \in DecomposeOutcomes(r)
    /\ segments' = IF r.hang THEN <<>> ELSE r.D

CallDecomposeToBeziers ==
    /\ Running
    /\ call' = [NoCall EXCEPT !.op = "DecomposeToBeziers"]
    /\ UNCHANGED <<curve, arcOut, built, outKnots, outPoints, result, flags>>
    /\ IF ~ValidCurveArguments(degree, knotVector, controlPoints)
       THEN /\ status' = "throw"
            /\ ub' = FALSE
            /\ segments' = <<>>
       ELSE ReturnsSegments(DecomposeToBeziers(degree, knotVector,
                                               controlPoints))

(***************************************************************************)
(* A call of RemoveKnot(degree, knotVector, controlPoints, u, times,       *)
(* outKnots, outPoints), for a parameter u inside the domain, a knot or    *)
(* not, and any number of times.                                           *)
(***************************************************************************)
IsInterior(U, u) == RLess(U[1], u) /\ RLess(u, U[Len(U)])

\* the curve RemoveKnot wrote and the flag of each attempt; before: an
\* earlier step of the call indexed out of range
ReturnsRemoved(r, before) ==
    /\ ub' = (before \/ r.ub)
    /\ status' \in Outcomes(before \/ r.ub)
    /\ flags' = r.flags
    /\ outKnots' = r.U
    /\ outPoints' = r.P

CallRemoveKnot(u, times) ==
    /\ Running
    /\ ValidCurveArguments(degree, knotVector, controlPoints)
           => IsInterior(knotVector, u)
    /\ call' = [NoCall EXCEPT !.op = "RemoveKnot", !.u = u, !.times = times]
    /\ UNCHANGED <<curve, arcOut, built, result, segments>>
    /\ IF \/ ~ValidCurveArguments(degree, knotVector, controlPoints)
          \/ ~InParamRange(knotVector, u)
          \/ times <= 0
       THEN /\ status' = "throw"
            /\ ub' = FALSE
            /\ flags' = <<>>
            /\ UNCHANGED <<outKnots, outPoints>>
       ELSE ReturnsRemoved(RemoveKnot(degree, knotVector, controlPoints, u,
                                      times), FALSE)

(***************************************************************************)
(* InsertKnot of an interior value u, once, into the output buffers,       *)
(* followed by RemoveKnot of u, once, from the curve InsertKnot gave; the  *)
(* result of RemoveKnot replaces the output buffers.                       *)
(***************************************************************************)
\* RemoveKnot of u, once, from the curve ins that InsertKnot gave
RemoveInserted(ins, u) ==
    ReturnsRemoved(RemoveKnot(degree, ins.U, ins.P, u, 1), ins.ub)

CallInsertThenRemoveKnot(u) ==
    /\ Running
    /\ Len(knotVector) > 0
    /\ IsInterior(knotVector, u)
    /\ GetKnotMultiplicity(knotVector, u) < degree
    /\ call' = [NoCall EXCEPT !.op = "InsertThenRemoveKnot", !.u = u,
                              !.times = 1]
    /\ UNCHANGED <<curve, arcOut, built, result, segments>>
    /\ IF \/ ~ValidCurveArguments(degree, knotVector, controlPoints)
          \/ ~InParamRange(knotVector, u)
       THEN /\ status' = "throw"
            /\ ub' = FALSE
            /\ flags' = <<>>
            /\ UNCHANGED <<outKnots, outPoints>>
       ELSE RemoveInserted(InsertKnot(degree, knotVector, controlPoints, u, 1,
                                      outKnots, outPoints), u)

(***************************************************************************)
(* A call of ElevateDegree(degree, knotVector, controlPoints, times,       *)
(* outKnots, outPoints)                                                    *)
(***************************************************************************)
CallElevateDegree(times) ==
    /\ Running
    /\ call' = [NoCall EXCEPT !.op = "ElevateDegree", !.times = times]
    /\ UNCHANGED <<curve, arcOut, built, returned>>
    /\ IF ~ValidCurveArguments(degree, knotVector, controlPoints) \/ times <= 0
       THEN /\ status' = "throw"
            /\ ub' = FALSE
            /\ UNCHANGED <<outKnots, outPoints>>
       ELSE ReturnsCurve(ElevateDegree(degree, knotVector, controlPoints,
                                       times, outKnots, outPoints))

(***************************************************************************)
(* A call of CreateArc(center, xAxis, yAxis, startRad, endRad, xRadius,    *)
(* yRadius, degree, knotVector, controlPoints) with the caller's buffers:  *)
(* outKnots for the knots, arcPoints for the control points.               *)
(***************************************************************************)
\* the angles of the calls: multiples of an eighth of a turn
ArcAngle(k) == R(k * (Pi \div 4))

ArcStarts == {ArcAngle(k) : k \in 0..1}

ArcEnds == {ArcAngle(k) : k \in 0..MaxEighths}

\* the arc written to the caller's buffers and the value returned
ReturnsArc(r) ==
    /\ ub' = r.ub
    /\ status' \in Outcomes(r.ub)
    /\ outKnots' = r.U
    /\ arcPoints' = r.P
    /\ arc' = [narcs |-> r.narcs, degree |-> r.degree, ret |-> r.ret]

CallCreateArc(startRad, endRad) ==
    /\ Running
    /\ call' = [NoCall EXCEPT !.op = "CreateArc", !.u = startRad,
                              !.v = endRad]
    /\ UNCHANGED <<curve, outPoints, returned, built>>
    /\ ReturnsArc(CreateArc(startRad, endRad, arc.degree, outKnots,
                            arcPoints))

(***************************************************************************)
(* A call of CreateOpenConic(start, startTangent, end, endTangent,         *)
(* pointOnConic, degree, knotVector, controlPoints) with the caller's      *)
(* buffers outKnots and outPoints, for tangents and a point on the conic   *)
(* from which CreateOneConicArc gives isCreated, the shoulder point        *)
(* (2, height, 0) and the weight w1.                                       *)
(***************************************************************************)
ConicStart == <<R(0), R(0), R(0)>>

ConicEnd == <<R(4), R(0), R(0)>>

\* the shoulder points: the tangents turn by less than 60 degrees, by 90
\* degrees and by more than 90 degrees
ConicHeights == {1, 2, 4}

ConicShoulder(height) == <<R(2), R(height), R(0)>>

\* the shoulder weights: the halves from -2 to 2
ConicWeights == {Norm(h, 2) : h \in (0 - 4)..4}

ReturnsConic(r) ==
    /\ ub' = FALSE
    /\ status' = "ok"
    /\ outKnots' = r.U
    /\ outPoints' = r.P
    /\ conic' = [nsegs |-> r.nsegs, degree |-> r.degree]
    /\ ret' = r.ret

CallCreateOpenConic(isCreated, height, w1) ==
    /\ Running
    /\ call' = [NoCall EXCEPT !.op = "CreateOpenConic", !.u = w1,
                              !.v = R(height),
                              !.times = IF isCreated THEN 1 ELSE 0]
    /\ UNCHANGED <<curve, arcOut, returned, fitPoints, newton>>
    /\ ReturnsConic(CreateOpenConic(ConicStart, ConicEnd, isCreated,
                                    ConicShoulder(height), w1, conic.degree,
                                    outKnots, outPoints))

(***************************************************************************)
(* A call of GlobalInterpolation(p, throughPoints, outKnots, fitPoints)    *)
(* with size through points of family sh.                                  *)
(***************************************************************************)
\* a curve written to outKnots and fitPoints
ReturnsFit(r) ==
    /\ ub' = r.ub
    /\ status' \in Outcomes(r.ub)
    /\ outKnots' = r.U
    /\ fitPoints' = r.P

CallGlobalInterpolation(p, sh, size) ==
    /\ Running
    /\ p < size
    /\ call' = [NoCall EXCEPT !.op = "GlobalInterpolation", !.p = p,
                              !.shape = sh, !.size = size]
    /\ UNCHANGED <<curve, arcOut, returned, outPoints, conic, newton, ret>>
    /\ ReturnsFit(GlobalInterpolation(p, size,
                                      GetChordParameterization(sh, size),
                                      fitPoints))

(***************************************************************************)
(* A call of LeastSquaresApproximation(p, throughPoints, count, outKnots,  *)
(* fitPoints) with size through points of family sh.                       *)
(***************************************************************************)
ReturnsApproximation(r) ==
    /\ ReturnsFit(r)
    /\ ret' = r.ret

CallLeastSquaresApproximation(p, sh, size, count) ==
    /\ Running
    /\ call' = [NoCall EXCEPT !.op = "LeastSquaresApproximation", !.p = p,
                              !.shape = sh, !.size = size, !.count = count]
    /\ UNCHANGED <<curve, arcOut, returned, outPoints, conic, newton>>
    /\ ReturnsApproximation(
           LeastSquaresApproximation(p, size, count,
                                     GetChordParameterization(sh, size),
                                     outKnots, fitPoints))

(***************************************************************************)
(* A call of GlobalCurveApproximationByErrorBound(p, throughPoints,        *)
(* maxError, outKnots, outPoints) with size through points of family sh.   *)
(***************************************************************************)
\* the error bounds of the calls
ErrorBounds == {R(0), R(1), R(2)}

ReturnsApproximated(r) ==
    /\ ub' = FALSE
    /\ status' = IF r.thrown THEN "throw" ELSE "ok"
    /\ outKnots' = r.U
    /\ outPoints' = r.P

CallGlobalCurveApproximationByErrorBound(p, sh, size, maxError) ==
    /\ Running
    /\ call' = [NoCall EXCEPT !.op = "GlobalCurveApproximationByErrorBound",
                              !.p = p, !.shape = sh, !.size = size,
                              !.u = maxError]
    /\ UNCHANGED <<curve, arcOut, returned, built>>
    /\ ReturnsApproximated(
           GlobalCurveApproximationByErrorBound(p, sh, size, maxError,
                                                outKnots, outPoints))

(***************************************************************************)
(* A call of GetParamOnCurve(degree, knotVector, controlPoints, G), made   *)
(* on the polylines with unit weights among the curves: there every Newton *)
(* step is an exact projection and the rationals stay small.               *)
(***************************************************************************)
IsPolyline ==
    degree = 1 /\ \A i \in 1..Len(controlPoints) : controlPoints[i][4] = R(1)

\* the points whose parameter is asked for
GivenPoints ==
    {<<R(x), R(y), R(0)>> : x \in {0 - 5, 1, 3, 9}, y \in {0, 1}}

ReturnsParam(r) ==
    /\ ub' = FALSE
    /\ status' = IF r.thrown THEN "throw" ELSE "ok"
    /\ newton' = [iterations |-> r.iterations, paramT |-> r.paramT,
                  first |-> r.first]

CallGetParamOnCurve(G) ==
    /\ Running
    /\ ~ValidCurveArguments(degree, knotVector, controlPoints) \/ IsPolyline
    /\ call' = [NoCall EXCEPT !.op = "GetParamOnCurve", !.X = G]
    /\ UNCHANGED <<curve, arcOut, returned, outKnots, outPoints, conic,
                   fitPoints, ret>>
    /\ IF ~ValidCurveArguments(degree, knotVector, controlPoints)
       THEN /\ status' = "throw"
            /\ ub' = FALSE
            /\ UNCHANGED newton
       ELSE ReturnsParam(GetParamOnCurve(degree, knotVector, controlPoints,
                                         G))

(***************************************************************************)
(* A call of ReduceDegree(degree, knotVector, controlPoints, outKnots,     *)
(* outPoints)                                                              *)
(***************************************************************************)
ReturnsReduced(r) ==
    /\ ub' = r.ub
    /\ status' \in Outcomes(r.ub)
    /\ outKnots' = r.U
    /\ outPoints' = r.P
    /\ ret' = r.ret

\* a mutant of CallReduceDegree: the output buffers are resized before the
\* arguments are validated
CallReduceDegreeResizeFirst ==
    /\ Running
    /\ call' = [NoCall EXCEPT !.op = "ReduceDegree"]
    /\ UNCHANGED <<curve, arcOut, returned, conic, fitPoints, newton>>
    /\ IF \/ ~IsValidDegreeReduction(degree)
          \/ ~ValidCurveArguments(degree, knotVector, controlPoints)
       THEN /\ status' = "throw"
            /\ ub' = FALSE
            /\ outKnots' = Resize(outKnots,
                                  2 * (Len(controlPoints) - 1) + degree, R(0))
            /\ outPoints' = Resize(outPoints, 2 * (Len(controlPoints) - 1),
                                   ZeroXYZW)
            /\ UNCHANGED ret
       ELSE ReturnsReduced(ReduceDegree(degree, knotVector, controlPoints,
                                        outKnots, outPoints))

CallReduceDegree ==
    /\ Running
    /\ call' = [NoCall EXCEPT !.op = "ReduceDegree"]
    /\ UNCHANGED <<curve, arcOut, returned, conic, fitPoints, newton>>
    /\ IF \/ ~IsValidDegreeReduction(degree)
          \/ ~ValidCurveArguments(degree, knotVector, controlPoints)
       THEN /\ status' = "throw"
            /\ ub' = FALSE
            /\ UNCHANGED <<outKnots, outPoints, ret>>
       ELSE ReturnsReduced(ReduceDegree(degree, knotVector, controlPoints,
                                        outKnots, outPoints))

(***************************************************************************)
(* A call of ToUnclampCurve(degree, knotVector, controlPoints): the curve  *)
(* itself is the output.                                                   *)
(***************************************************************************)
ReturnsUnclamped(r) ==
    /\ ub' = r.ub
    /\ status' \in Outcomes(r.ub)
    /\ knotVector' = r.U
    /\ controlPoints' = r.P

CallToUnclampCurve ==
    /\ Running
    /\ call' = [NoCall EXCEPT !.op = "ToUnclampCurve"]
    /\ UNCHANGED <<degree, outKnots, outPoints, arcOut, returned, built>>
    /\ ReturnsUnclamped(ToUnclampCurve(degree, knotVector, controlPoints))

(***************************************************************************)
(* A call of GetPointOnSurfaceByDeCasteljau or of                          *)
(* GetPointOnRationalSurfaceByDeCasteljau on a net of a family: family 0   *)
(* is the net of T_BezierSurface.cpp.                                      *)
(***************************************************************************)
\* the nets of the test: controlPoints and, with weights, weightedControlPoints
TestNet(weighted) ==
    LET w(k) == IF weighted THEN <<R(k)>> ELSE <<>>
    IN  << <<<<R(1), R(1), R(0)>> \o w(1), <<R(-1), R(1), R(0)>> \o w(1)>>,
           <<<<R(1), R(1), R(1)>> \o w(1), <<R(-1), R(1), R(1)>> \o w(1)>>,
           <<<<R(2), R(0), R(2)>> \o w(2), <<R(-2), R(0), R(2)>> \o w(2)>> >>

\* point (i, j) of family sh: three coordinates, and a weight if weighted
NetPoint(sh, i, j, weighted) ==
    <<R(i * i + sh * j), R(i * j + sh), R((i + j) % 2)>>
        \o (IF weighted THEN <<R(1 + (((i + 2 * j) * (sh - 1)) % 3))>>
            ELSE <<>>)

\* the (n + 1) x (m + 1) net of family sh
SurfaceNet(sh, n, m, weighted) ==
    IF sh = 0 THEN TestNet(weighted)
    ELSE Tuple([x \in 1..(n + 1) |->
                  Tuple([y \in 1..(m + 1) |->
                           NetPoint(sh, x - 1, y - 1, weighted)])])

\* the parameters a surface is evaluated at
SurfaceParams == {Norm(1, 4), Norm(1, 2), R(1)}

\* family 0 has the degrees of the test
IsNetOfFamily(sh, n, m) == sh = 0 => (n = 2 /\ m = 1)

CallGetPointOnSurface(sh, n, m, u, v) ==
    /\ Running
    /\ IsNetOfFamily(sh, n, m)
    /\ call' = [NoCall EXCEPT !.op = "GetPointOnSurface", !.shape = sh,
                              !.p = n, !.size = m, !.u = u, !.v = v]
    /\ UNCHANGED <<curve, arcOut, built, outKnots, outPoints, segments, flags>>
    /\ ub' = FALSE
    /\ status' = "ok"
    /\ result' = GetPointOnSurfaceByDeCasteljau(
                     n, m, SurfaceNet(sh, n, m, FALSE), u, v)

CallGetPointOnRationalSurface(sh, n, m, u, v) ==
    /\ Running
    /\ IsNetOfFamily(sh, n, m)
    /\ call' = [NoCall EXCEPT !.op = "GetPointOnRationalSurface",
                              !.shape = sh, !.p = n, !.size = m, !.u = u,
                              !.v = v]
    /\ UNCHANGED <<curve, arcOut, built, outKnots, outPoints, segments, flags>>
    /\ ub' = FALSE
    /\ status' = "ok"
    /\ result' = GetPointOnRationalSurfaceByDeCasteljau(
                     n, m, SurfaceNet(sh, n, m, TRUE), u, v)

(***************************************************************************)
(* A call of EquallyTessellate(degree, knotVector, controlPoints,          *)
(* outPoints, outKnots): the samples are appended to the caller's buffers. *)
(***************************************************************************)
ReturnsTessellated(r) ==
    /\ ub' = r.ub
    /\ status' \in IF r.thrown
                   THEN {"throw"} \cup (IF r.ub THEN {"crash"} ELSE {})
                   ELSE Outcomes(r.ub)
    /\ outKnots' = r.knots
    /\ outPoints' = r.points

CallEquallyTessellate ==
    /\ Running
    /\ call' = [NoCall EXCEPT !.op = "EquallyTessellate"]
    /\ UNCHANGED <<curve, arcOut, built, returned>>
    /\ IF ~ValidCurveArguments(degree, knotVector, controlPoints)
       THEN /\ status' = "throw"
            /\ ub' = FALSE
            /\ UNCHANGED <<outKnots, outPoints>>
       ELSE ReturnsTessellated(EquallyTessellate(degree, knotVector,
                                                 controlPoints, outPoints,
                                                 outKnots))

(***************************************************************************)
(* A call of LocalRationalQuadraticCurveApproximation(startPointIndex,     *)
(* endPointIndex, throughPoints, startTangent, endTangent, maxError,       *)
(* fitPoints) with Len(arcs) through points between the two indices.       *)
(***************************************************************************)
\* the weights CreateOneConicArc gives for an intermediate point
LocalWeights == {R(1), R(3)}

LocalOutcomes ==
    {[kind |-> k, w |-> R(0)] : k \in {"Miss", "Outside", "Failed"}}
    \cup {[kind |-> "Arc", w |-> w] : w \in LocalWeights}

\* the outcomes of the intermediate points of a call
LocalArcs ==
    UNION {{Tuple(f) : f \in [1..count -> LocalOutcomes]}
           : count \in 0..(MaxData - 2)}

LocalRays == {"Coincident", "Skew", "Parallel", "Behind", "Intersecting"}

ReturnsLocal(r) ==
    /\ ub' = FALSE
    /\ status' = "ok"
    /\ fitPoints' = r.P
    /\ ret' = r.ret

\* what the call does not read is given one value: the rays and the test
\* without intermediate points, the Bezier construction with them
CallLocalRationalQuadraticCurveApproximation(rays, arcs, within, made) ==
    /\ Running
    /\ Len(arcs) = 0 => (rays = "Intersecting" /\ within)
    /\ Len(arcs) > 0 => made
    /\ call' = [NoCall EXCEPT !.op = "LocalRationalQuadraticCurveApproximation",
                              !.rays = rays, !.X = arcs,
                              !.count = Len(arcs),
                              !.size = IF within THEN 1 ELSE 0,
                              !.times = IF made THEN 1 ELSE 0]
    /\ UNCHANGED <<curve, arcOut, returned, conic, newton, outKnots,
                   outPoints>>
    /\ ReturnsLocal(LocalRationalQuadraticCurveApproximation(
                        rays, arcs, within, made, fitPoints))

(***************************************************************************)
(* A call of Reverse(knotVector, controlPoints, outKnots, outPoints), and  *)
(* a call of Reverse on what a first call of Reverse gave.                 *)
(***************************************************************************)
CallReverse ==
    /\ Running
    /\ call' = [NoCall EXCEPT !.op = "Reverse"]
    /\ UNCHANGED <<curve, arcOut, built, returned>>
    /\ ReturnsCurve(Reverse(knotVector, controlPoints, outKnots, outPoints))

\* Reverse(knotVector, controlPoints, U1, P1) into empty vectors, then
\* Reverse(U1, P1, outKnots, outPoints)
CallReverseTwice ==
    /\ Running
    /\ call' = [NoCall EXCEPT !.op = "ReverseTwice"]
    /\ UNCHANGED <<curve, arcOut, built, returned>>
    /\ LET once == Reverse(knotVector, controlPoints, <<>>, <<>>)
           back == Reverse(once.U, once.P, outKnots, outPoints)
       IN  ReturnsCurve([U |-> back.U, P |-> back.P,
                         ub |-> once.ub \/ back.ub])

Next ==
    \/ \E u \in Params, times \in 1..MaxTimes : CallInsertKnot(u, times)
    \/ \E t \in Samples : CallCornerCut(t)
    \/ \E X \in InsertLists : CallRefineKnotVector(X)
    \/ CallDecomposeToBeziers
    \/ \E u \in Params, times \in 1..MaxTimes : CallRemoveKnot(u, times)
    \/ \E u \in Params : CallInsertThenRemoveKnot(u)
    \/ \E times \in 1..MaxTimes : CallElevateDegree(times)
    \/ \E s \in ArcStarts, e \in ArcEnds : CallCreateArc(s, e)
    \/ \E isCreated \in BOOLEAN, height \in ConicHeights, w1 \in ConicWeights :
          CallCreateOpenConic(isCreated, height, w1)
    \/ \E p \in 1..MaxDegree, sh \in 1..NumShapes, size \in 2..MaxData :
          CallGlobalInterpolation(p, sh, size)
    \/ \E p \in 1..MaxDegree, sh \in 1..NumShapes, size \in 2..MaxData,
          count \in 1..(MaxData + 1) :
          CallLeastSquaresApproximation(p, sh, size, count)
    \/ \E p \in 1..MaxDegree, sh \in 1..NumShapes, size \in 2..MaxData,
          maxError \in ErrorBounds :
          CallGlobalCurveApproximationByErrorBound(p, sh, size, maxError)
    \/ \E G \in GivenPoints : CallGetParamOnCurve(G)
    \/ CallReduceDegree
    \/ CallToUnclampCurve
    \/ \E sh \in 0..NumShapes, n \in 1..MaxDegree, m \in 1..MaxDegree,
          u \in SurfaceParams, v \in SurfaceParams :
          CallGetPointOnSurface(sh, n, m, u, v)
    \/ \E sh \in 0..NumShapes, n \in 1..MaxDegree, m \in 1..MaxDegree,
          u \in SurfaceParams, v \in SurfaceParams :
          CallGetPointOnRationalSurface(sh, n, m, u, v)
    \/ CallEquallyTessellate
    \/ \E rays \in LocalRays, arcs \in LocalArcs, within \in BOOLEAN,
          made \in BOOLEAN :
          CallLocalRationalQuadraticCurveApproximation(rays, arcs, within, made)
    \/ CallReverse
    \/ CallReverseTwice

Spec == Init /\ [][Next]_vars

\* the calls made with any curve, valid or not
SpecAnyCurve == InitAnyCurve /\ [][Next]_vars

\* the calls made with the curves of the families and with the polylines
\* written in degree 2, which ReduceDegree can reduce
SpecWithReducible == InitWithReducible /\ [][Next]_vars

(***************************************************************************)
(* The claims.                                                             *)
(***************************************************************************)
\* the curve (p, U, P) and the curve (q, V, Q) have the same point at every
\* sampled parameter, and both evaluations succeed
SameCurve(p, U, P, q, V, Q) ==
    \A t \in Samples :
        /\ GetPointOnCurve(q, V, t, Q) # Thrown
        /\ GetPointOnCurve(q, V, t, Q) = GetPointOnCurve(p, U, t, P)

IsNondecreasing(U) == \A i \in 1..(Len(U) - 1) : RLeq(U[i], U[i + 1])

InsertCalled == call.op = "InsertKnot" /\ status # "throw"

InsertMultiplicity == GetKnotMultiplicity(knotVector, call.u)

InsertSpan == GetKnotSpanIndex(degree, knotVector, call.u)

\* C1: after InsertKnot of a value u of multiplicity s, r times with
\* 1 <= r <= p - s, the call has returned and the output curve has the same
\* point as the input curve at every sampled parameter of the domain.
C1_InsertPreservesCurve ==
    (InsertCalled /\ 1 <= call.times
                  /\ call.times <= degree - InsertMultiplicity)
    => /\ status = "ok"
       /\ ~ub
       /\ SameCurve(degree, knotVector, controlPoints,
                    degree, outKnots, outPoints)

\* C1 witness: a value that is no knot was inserted twice into a curve with
\* an interior knot
C1_Witness ==
    /\ InsertCalled
    /\ status = "ok"
    /\ InsertMultiplicity = 0
    /\ call.times = 2
    /\ degree >= 2
    /\ Len(knotVector) > 2 * degree + 2

\* what C2 states of a call InsertKnot(p, U, P, u, r)
InsertShape ==
    LET s  == InsertMultiplicity
        k  == InsertSpan
        r1 == Min(call.times, degree - s)
    IN  /\ status = "ok"
        /\ ~ub
        /\ Len(outKnots) = Len(knotVector) + r1
        /\ outKnots = SubSeq(knotVector, 1, k + 1) \o Copies(r1, call.u)
                        \o SubSeq(knotVector, k + 2, Len(knotVector))
        /\ IsNondecreasing(outKnots)
        /\ GetKnotMultiplicity(outKnots, call.u) = s + r1
        /\ s + r1 <= degree
        /\ Len(outPoints) = Len(controlPoints) + r1
        /\ Len(outKnots) = Len(outPoints) + degree + 1

\* C2: every call InsertKnot(p, U, P, u, r) returns having inserted
\* r' = min(r, p - s) copies of u after U[k]: the output knot vector is
\* U[0..k], r' copies of u, U[k+1..], nondecreasing, with multiplicity
\* s + r' <= p of u, and both buffers have grown by r'.
C2_InsertShapeAlways == InsertCalled => InsertShape

\* C9: GetPointOnCurveByCornerCut returns, for every parameter t of the
\* domain, the point GetPointOnCurve returns; at t = U[0] that is P[0] and at
\* t = U[m] it is P[n], both divided by their weight.
C9_CornerCutIsPoint ==
    (call.op = "CornerCut")
    => /\ status = "ok"
       /\ ~ub
       /\ result = GetPointOnCurve(degree, knotVector, call.u, controlPoints)
       /\ (call.u = knotVector[1] => result = ToXYZ(controlPoints[1]))
       /\ (call.u = knotVector[Len(knotVector)]
              => result = ToXYZ(controlPoints[Len(controlPoints)]))

\* C9 witness: the corner cut ran two sweeps at a parameter that is no knot
\* of a curve with an interior knot and varying weights
C9_Witness ==
    /\ call.op = "CornerCut"
    /\ status = "ok"
    /\ GetKnotMultiplicity(knotVector, call.u) = 0
    /\ degree >= 2
    /\ Len(knotVector) > 2 * degree + 2
    /\ \E i \in 1..Len(controlPoints) : controlPoints[i][4] # R(1)

\* the curve InsertKnot (one copy) gives when applied to each element of X
\* in turn, starting from empty buffers
RECURSIVE InsertEach(_, _, _, _, _)
InsertEach(p, U, P, X, i) ==
    IF i > Len(X) THEN [U |-> U, P |-> P, ub |-> FALSE]
    ELSE LET one  == InsertKnot(p, U, P, X[i], 1, <<>>, <<>>)
             rest == InsertEach(p, one.U, one.P, X, i + 1)
         IN  [rest EXCEPT !.ub = one.ub \/ rest.ub]

RefineCalled == call.op = "RefineKnotVector" /\ status # "throw"

\* no value of X ends with more than p copies in the refined knot vector
RefineKeepsMultiplicity ==
    \A i \in 1..Len(call.X) :
        GetKnotMultiplicity(knotVector, call.X[i])
            + Cardinality({j \in 1..Len(call.X) : call.X[j] = call.X[i]})
        <= degree

RefineGrows ==
    /\ status = "ok"
    /\ ~ub
    /\ Len(outKnots) = Len(knotVector) + Len(call.X)
    /\ Len(outPoints) = Len(controlPoints) + Len(call.X)

RefineIsInsertEach ==
    LET each == InsertEach(degree, knotVector, controlPoints, call.X, 1)
    IN  /\ ~each.ub
        /\ outKnots = each.U
        /\ outPoints = each.P

\* C8 as stated: for every nonempty sorted list X of values of the domain,
\* RefineKnotVector grows both buffers by |X| and its result is the result
\* of InsertKnot (one copy) applied for each element of X in turn.
C8_RefineIsInsertEachAlways ==
    RefineCalled => (RefineGrows /\ RefineIsInsertEach)

\* C8 amended: for every nonempty sorted list X of values of the domain,
\* RefineKnotVector grows both buffers by |X|; when no value of X ends with
\* more than p copies in the refined knot vector, the result is the result
\* of InsertKnot (one copy) applied for each element of X in turn.
C8_RefineIsInsertEach ==
    RefineCalled
    => /\ RefineGrows
       /\ (RefineKeepsMultiplicity => RefineIsInsertEach)

\* C8 witness: two distinct values were refined into a curve that has an
\* interior knot, one of them that knot
C8_Witness ==
    /\ RefineCalled
    /\ status = "ok"
    /\ RefineKeepsMultiplicity
    /\ Len(call.X) = 2
    /\ call.X[1] # call.X[2]
    /\ \E i \in 1..2 : /\ GetKnotMultiplicity(knotVector, call.X[i]) = 1
                       /\ call.X[i] # knotVector[1]

\* Polynomials::Bernstein(i, n, t) = C(n, i) t^i (1 - t)^(n - i)
RECURSIVE RPow(_, _)
RPow(a, e) == IF e <= 0 THEN R(1) ELSE RMul(a, RPow(a, e - 1))

Bernstein(i, n, t) ==
    RMul(R(Binomial(n, i)), RMul(RPow(t, i), RPow(RSub(R(1), t), n - i)))

\* the point at t of the degree-p Bezier curve of the weighted points seg
RECURSIVE BezierSum(_, _, _, _)
BezierSum(p, seg, t, i) ==
    IF i > p THEN ZeroXYZW
    ELSE PAdd(PScale(Bernstein(i, p, t), At(seg, i, ZeroXYZW)),
              BezierSum(p, seg, t, i + 1))

BezierPoint(p, seg, t) == ToXYZ(BezierSum(p, seg, t, 0))

\* the distinct knot values, and the k-th nonzero span <<a, b>> in order
KnotValues(U) == {U[i] : i \in 1..Len(U)}

KnotBefore(U, v) == Cardinality({w \in KnotValues(U) : RLess(w, v)})

NumSpans(U) == Cardinality(KnotValues(U)) - 1

SpanOf(U, k) ==
    <<CHOOSE v \in KnotValues(U) : KnotBefore(U, v) = k - 1,
      CHOOSE v \in KnotValues(U) : KnotBefore(U, v) = k>>

DecomposeCalled == call.op = "DecomposeToBeziers" /\ status # "throw"

\* segment k of the result is the curve on the k-th nonzero span
SegmentIsCurve(k) ==
    LET ab == SpanOf(knotVector, k)
    IN  /\ k <= Len(segments)
        /\ \A x \in Samples :
              (RLeq(ab[1], x) /\ RLeq(x, ab[2]))
              => BezierPoint(degree, segments[k],
                             RDiv(RSub(x, ab[1]), RSub(ab[2], ab[1])))
                   = GetPointOnCurve(degree, knotVector, x, controlPoints)

\* C4: every call of DecomposeToBeziers returns, and for each nonzero knot
\* span [a, b] in order the corresponding segment, evaluated as a degree-p
\* Bezier at (x - a)/(b - a), is the point of the curve at x, for every
\* sampled x of [a, b]; also when an interior knot has multiplicity p.
C4_DecomposeIsCurve ==
    DecomposeCalled
    => /\ status = "ok"
       /\ ~ub
       /\ \A k \in 1..NumSpans(knotVector) : SegmentIsCurve(k)

\* C5: every call of DecomposeToBeziers returns exactly one segment per
\* nonzero knot span (the number of distinct knot values minus one), each of
\* p + 1 control points; also when interior knots are repeated.
C5_DecomposeOnePerSpan ==
    DecomposeCalled
    => /\ status = "ok"
       /\ ~ub
       /\ Len(segments) = NumSpans(knotVector)
       /\ \A k \in 1..Len(segments) : Len(segments[k]) = degree + 1

RemoveCalled == call.op = "RemoveKnot" /\ status # "throw"

\* the number of attempts that succeeded before the first that did not
RECURSIVE SucceededBefore(_, _)
SucceededBefore(remflags, i) ==
    IF i > Len(remflags) \/ ~remflags[i] THEN 0
    ELSE 1 + SucceededBefore(remflags, i + 1)

\* C6: every call of RemoveKnot stops at the first attempt that does not
\* agree within the tolerance: with c the number of attempts that succeeded
\* before it, the output knot vector has |U| - c knots and the output
\* control net |P| - c points, and when c = 0 the outputs are (U, P).
C6_RemoveStopsAtFailure ==
    RemoveCalled
    => LET c == SucceededBefore(flags, 1)
       IN  /\ status = "ok"
           /\ ~ub
           /\ Len(outKnots) = Len(knotVector) - c
           /\ Len(outPoints) = Len(controlPoints) - c
           /\ (c = 0 => outKnots = knotVector /\ outPoints = controlPoints)

\* C7: inserting an interior value u of multiplicity s < p once and then
\* removing u once gives back the knot vector U and the control points P.
C7_RemoveUndoesInsert ==
    (call.op = "InsertThenRemoveKnot" /\ status # "throw")
    => /\ status = "ok"
       /\ ~ub
       /\ outKnots = knotVector
       /\ Len(outPoints) = Len(controlPoints)
       /\ \A i \in 1..Len(controlPoints) :
              WithinTolerance(outPoints[i], controlPoints[i])

ElevateCalled == call.op = "ElevateDegree" /\ status # "throw"

\* C3: every call of ElevateDegree with t >= 1 returns, and the curve of
\* degree p + t it gives has, at every sampled parameter of the domain, the
\* point of the curve it was given.
C3_ElevatePreservesCurve ==
    ElevateCalled
    => /\ status = "ok"
       /\ ~ub
       /\ SameCurve(degree, knotVector, controlPoints,
                    degree + call.times, outKnots, outPoints)

ArcCalled == call.op = "CreateArc"

\* the sweep angle of the call
ArcSweep == RSub(call.v, call.u)

\* the number of segments C10 states for a sweep angle theta > 0
ArcCountStated(theta) ==
    IF RLeq(theta, R(90)) THEN 1
    ELSE IF RLeq(theta, R(180)) THEN 2
    ELSE IF RLeq(theta, R(270)) THEN 3
    ELSE 4

\* C10: a call of CreateArc with sweep angle theta = endRad - startRad > 0
\* returns, having chosen narcs = 1, 2, 3 or 4 for theta <= 90, <= 180,
\* <= 270 degrees or more, with degree 2, exactly 2 narcs + 1 control points
\* and 2 narcs + 4 knots (9 and 12 for the full circle).
C10_ArcShape ==
    (ArcCalled /\ RLess(R(0), ArcSweep))
    => /\ status = "ok"
       /\ ~ub
       /\ arc.ret
       /\ arc.narcs = ArcCountStated(ArcSweep)
       /\ arc.degree = 2
       /\ Len(arcPoints) = 2 * arc.narcs + 1
       /\ Len(outKnots) = 2 * arc.narcs + 4
       /\ Len(outKnots) = Len(arcPoints) + 3

\* the knot vector C11 states for narcs segments: three 0s, i / narcs twice
\* for i = 1..narcs - 1, three 1s
ArcKnotsStated(narcs) ==
    <<R(0), R(0), R(0)>>
    \o Tuple([k \in 1..(2 * (narcs - 1)) |-> Norm((k + 1) \div 2, narcs)])
    \o <<R(1), R(1), R(1)>>

\* C11: a call of CreateArc that returned true has returned, without an
\* out-of-range access, the knot vector of three 0s, then i / narcs twice for
\* each i = 1..narcs - 1 (1/3, 1/3, 2/3, 2/3 for narcs = 3), then three 1s.
C11_ArcKnots ==
    (ArcCalled /\ arc.ret)
    => /\ status = "ok"
       /\ ~ub
       /\ outKnots = ArcKnotsStated(arc.narcs)

\* the interior knots of a returned arc of three segments are as C11 states
C11_ArcThirds ==
    (ArcCalled /\ arc.ret /\ arc.narcs = 3)
    => SubSeq(outKnots, 4, 7) = SubSeq(ArcKnotsStated(3), 4, 7)

(***************************************************************************)
(* CreateOpenConic                                                         *)
(***************************************************************************)
\* a call of CreateOpenConic has returned true
ConicReturned == call.op = "CreateOpenConic" /\ status = "ok" /\ ret

\* C12: a call of CreateOpenConic that returned true has set the degree to 2
\* and returned |U| = |P| + 3; for a shoulder weight w1 >= 1 it has returned
\* one segment, 3 control points on the knots 0, 0, 0, 1, 1, 1; for
\* 0 < w1 < 1 it has returned 2 or 4 segments, 5 or 9 control points, never
\* one segment.
C12_ConicSegments ==
    ConicReturned
    => /\ conic.degree = 2
       /\ Len(outKnots) = Len(outPoints) + 3
       /\ RLeq(R(1), call.u)
          => /\ Len(outPoints) = 3
             /\ outKnots = <<R(0), R(0), R(0), R(1), R(1), R(1)>>
       /\ (RLess(R(0), call.u) /\ RLess(call.u, R(1)))
          => Len(outPoints) \in {5, 9}

\* C13: every control point of a curve that CreateOpenConic returned in 2 or
\* 4 segments has a weight greater than 0.
C13_ConicWeightsPositive ==
    (ConicReturned /\ conic.nsegs \in {2, 4})
    => \A i \in 1..Len(outPoints) : RLess(R(0), outPoints[i][4])

(***************************************************************************)
(* GlobalInterpolation and LeastSquaresApproximation                       *)
(***************************************************************************)
\* every point of the net has the weight 1
WeightsOne(P) == \A i \in 1..Len(P) : P[i].w = R(1)

\* C14: a call of GlobalInterpolation(p, Q, ...) returns, without an
\* out-of-range access, exactly |Q| control points of weight 1 and a knot
\* vector of |Q| + p + 1 knots, whatever the output buffers held, empty
\* buffers included.
C14_InterpolationShape ==
    call.op = "GlobalInterpolation"
    => /\ status = "ok"
       /\ ~ub
       /\ Len(fitPoints) = call.size
       /\ WeightsOne(fitPoints)
       /\ Len(outKnots) = call.size + call.p + 1

\* the knot vector of a call of GlobalInterpolation has |Q| + p + 1 knots
C14_InterpolationKnots ==
    call.op = "GlobalInterpolation"
    => Len(outKnots) = call.size + call.p + 1

\* C15: a call of LeastSquaresApproximation(p, Q, m', ...) with
\* p < m' < |Q| returns true, without an out-of-range access, exactly m'
\* control points of weight 1, the first Q[0] and the last Q[|Q| - 1]; with
\* m' >= |Q| or m' <= p it returns false and leaves the buffers as they were.
C15_ApproximationShape ==
    call.op = "LeastSquaresApproximation"
    => IF call.p < call.count /\ call.count < call.size
       THEN /\ status = "ok"
            /\ ~ub
            /\ ret
            /\ Len(fitPoints) = call.count
            /\ WeightsOne(fitPoints)
            /\ fitPoints[1] = DataFit(0, R(1))
            /\ fitPoints[call.count] = DataFit(call.size - 1, R(1))
       ELSE /\ status = "ok"
            /\ ~ret
            /\ outKnots \in {<<>>, StaleKnots}

\* a call of LeastSquaresApproximation returns false exactly when
\* m' >= |Q| or m' <= p, and then leaves the knot buffer as it was
C15_ApproximationRejects ==
    (call.op = "LeastSquaresApproximation" /\ status = "ok")
    => /\ ret = (call.p < call.count /\ call.count < call.size)
       /\ ~ret => outKnots \in {<<>>, StaleKnots}

(***************************************************************************)
(* GlobalCurveApproximationByErrorBound                                    *)
(***************************************************************************)
ApproximationCalled == call.op = "GlobalCurveApproximationByErrorBound"

\* the curve in the output buffers is no farther than the bound call.u from
\* through point i at its chord parameter
WithinBound(i) ==
    LET uk == GetChordParameterization(call.shape, call.size)
    IN  RLeq(Distance(BsplinePoint(call.p, outKnots, uk[i + 1], outPoints),
                      XYZW(DataPoint(call.shape, i), R(1))),
             call.u)

\* C16: a call of GlobalCurveApproximationByErrorBound(p, Q, tau) returns a
\* nonempty well-formed curve of degree p, |U| = |P| + p + 1, no farther
\* than tau from each through point at its parameter: no knot removal step
\* hands an invalid curve to the degree elevation that follows it.
C16_ApproximationWithinBound ==
    ApproximationCalled
    => /\ status = "ok"
       /\ Len(outPoints) > 0
       /\ Len(outKnots) = Len(outPoints) + call.p + 1
       /\ \A i \in 0..(call.size - 1) : WithinBound(i)

\* a call of GlobalCurveApproximationByErrorBound that returns gives a
\* well-formed curve within the bound
C16_ApproximationReturned ==
    (ApproximationCalled /\ status = "ok")
    => /\ Len(outPoints) > 0
       /\ Len(outKnots) = Len(outPoints) + call.p + 1
       /\ \A i \in 0..(call.size - 1) : WithinBound(i)

\* a call of GlobalCurveApproximationByErrorBound for a degree above 1 fails
C16_ApproximationFails ==
    (ApproximationCalled /\ call.p > 1) => status = "throw"

(***************************************************************************)
(* Termination of DecomposeToBeziers                                       *)
(***************************************************************************)
\* C17: every call of DecomposeToBeziers on a valid clamped curve of degree
\* p >= 1 terminates: the loop over the knots ends, also for p = 1 and for
\* interior knots of multiplicity p or more.
C17_DecomposeTerminates ==
    (call.op = "DecomposeToBeziers"
         /\ ValidCurveArguments(degree, knotVector, controlPoints))
    => status # "hang"

(***************************************************************************)
(* GetParamOnCurve                                                         *)
(***************************************************************************)
ParamCalled ==
    /\ call.op = "GetParamOnCurve"
    /\ ValidCurveArguments(degree, knotVector, controlPoints)

\* C18: every call of GetParamOnCurve on a valid curve returns, after at
\* most 10 passes of the Newton loop.
C18_ParamReturns ==
    ParamCalled => (status = "ok" /\ newton.iterations <= maxIterations)

\* no call of GetParamOnCurve enters the Newton loop more than 10 times
C18_ParamBounded == ParamCalled => newton.iterations <= maxIterations

(***************************************************************************)
(* C19: the input curve across a call                                      *)
(***************************************************************************)
\* the operations that take the curve by reference-to-const or only read it
ConstCurveOperations ==
    {"InsertKnot", "RefineKnotVector", "RemoveKnot", "ElevateDegree",
     "ReduceDegree", "CornerCut"}

\* C19: no curve operation modifies its input: across a call of InsertKnot,
\* RefineKnotVector, RemoveKnot, ElevateDegree, ReduceDegree,
\* GetPointOnCurveByCornerCut or ToUnclampCurve the caller's degree, knot
\* vector and control points are what they were before the call.
C19_InputsUnchanged ==
    [][(call'.op \in ConstCurveOperations \cup {"ToUnclampCurve"})
           => UNCHANGED curve]_vars

\* the part of C19 that holds: the six operations other than ToUnclampCurve
\* leave the curve as it was
C19_ConstInputsUnchanged ==
    [][(call'.op \in ConstCurveOperations) => UNCHANGED curve]_vars

(***************************************************************************)
(* C20: invalid arguments fail before the output buffers are touched       *)
(***************************************************************************)
\* the operations C20 is about
ValidatedOperations ==
    {"InsertKnot", "RefineKnotVector", "RemoveKnot", "ElevateDegree",
     "ReduceDegree"}

\* the curve of the call is invalid as C20 lists it: a degree of zero or
\* less (of less than two for ReduceDegree), no knots, a knot below the one
\* before it, no control points, or sizes that do not fit
InvalidArguments ==
    \/ degree <= 0
    \/ call.op = "ReduceDegree" /\ degree < 2
    \/ Len(knotVector) = 0
    \/ \E i \in 1..(Len(knotVector) - 1) :
          RLess(knotVector[i + 1], knotVector[i])
    \/ Len(controlPoints) = 0
    \/ Len(knotVector) # Len(controlPoints) + degree + 1

\* C20: a call of InsertKnot, RefineKnotVector, RemoveKnot, ElevateDegree or
\* ReduceDegree with an invalid curve fails at its validation, and the
\* caller's output buffers are what they were before the call.
C20_InvalidFailsFirst ==
    [][(call'.op \in ValidatedOperations /\ InvalidArguments')
           => (status' = "throw" /\ UNCHANGED <<outKnots, outPoints>>)]_vars

\* one of the five operations was called with an invalid curve and buffers
\* an earlier call had filled; it failed and the buffers hold what they held
C20_Witness ==
    /\ call.op \in ValidatedOperations
    /\ InvalidArguments
    /\ status = "throw"
    /\ outKnots = StaleKnots
    /\ outPoints = StalePoints

(***************************************************************************)
(* C21: de Casteljau on a Bezier surface                                   *)
(***************************************************************************)
\* sum_j B(j, m, v) * row[j], from column j on
RECURSIVE BernsteinRow(_, _, _, _)
BernsteinRow(row, m, v, j) ==
    IF j > m THEN Tuple([c \in 1..Len(row[1]) |-> R(0)])
    ELSE LET rest == BernsteinRow(row, m, v, j + 1)
         IN  Tuple([c \in 1..Len(rest) |->
                      RAdd(RMul(Bernstein(j, m, v), row[j + 1][c]), rest[c])])

\* sum_i sum_j B(i, n, u) * B(j, m, v) * P[i][j], from row i on
RECURSIVE TensorBernstein(_, _, _, _, _, _)
TensorBernstein(P, n, m, u, v, i) ==
    IF i > n THEN Tuple([c \in 1..Len(P[1][1]) |-> R(0)])
    ELSE LET row  == BernsteinRow(P[i + 1], m, v, 0)
             rest == TensorBernstein(P, n, m, u, v, i + 1)
         IN  Tuple([c \in 1..Len(rest) |->
                      RAdd(RMul(Bernstein(i, n, u), row[c]), rest[c])])

\* the call was made at the parameters of the test on its net
AtTestParameters ==
    call.shape = 0 /\ call.u = Norm(1, 2) /\ call.v = Norm(1, 2)

RECURSIVE WrappedInto(_, _, _)
WrappedInto(t, a, b) ==
    IF RLess(t, a) THEN WrappedInto(RAdd(t, RSub(b, a)), a, b)
    ELSE IF RLess(b, t) THEN WrappedInto(RSub(t, RSub(b, a)), a, b)
    ELSE t

\* t moved to the nearest end of [a, b]
ClampedInto(t, a, b) == IF RLess(t, a) THEN a ELSE IF RLess(b, t) THEN b ELSE t

\* C22: when a Newton step of GetParamOnCurve gives a parameter outside
\* [U[0], U[m]], the new parameter is that value wrapped into the domain if
\* the curve is closed and clamped to the nearest end if it is open.
C22_StepWrappedOrClamped ==
    (ParamCalled /\ newton.first.outside)
    => newton.first.back =
           IF IsClosed(controlPoints)
           THEN WrappedInto(newton.first.raw, knotVector[1],
                            knotVector[Len(knotVector)])
           ELSE ClampedInto(newton.first.raw, knotVector[1],
                            knotVector[Len(knotVector)])

\* what the code does on the open curves of the model: the step is moved by
\* the length of the domain, once
C22_OpenStepShifted ==
    (ParamCalled /\ newton.first.outside /\ ~IsClosed(controlPoints))
    => \/ newton.first.back
             = RAdd(newton.first.raw,
                    RSub(knotVector[Len(knotVector)], knotVector[1]))
       \/ newton.first.back
             = RSub(newton.first.raw,
                    RSub(knotVector[Len(knotVector)], knotVector[1]))

(***************************************************************************)
(* C23, C28: the shape of what ElevateDegree returns, and its buffers      *)
(***************************************************************************)
\* the number of entries of U equal to t
KnotCopies(U, t) == Cardinality({i \in 1..Len(U) : U[i] = t})

\* Uh has the knots of the clamped U, each with `times` more copies
IsElevatedKnotVector(Uh, U, times) ==
    /\ IsNondecreasing(Uh)
    /\ \A i \in 1..Len(Uh) : \E j \in 1..Len(U) : Uh[i] = U[j]
    /\ \A j \in 1..Len(U) : KnotCopies(Uh, U[j]) = KnotCopies(U, U[j]) + times

\* C23: ElevateDegree(p, U, P, t) on a valid clamped curve returns a
\* nondecreasing knot vector whose end knots have multiplicity p + t + 1 and
\* whose interior knots of multiplicity s have multiplicity s + t, and
\* |P'| = |U'| - (p + t) - 1 control points, with no surplus entries.
C23_ElevatedShape ==
    ElevateCalled
    => /\ IsElevatedKnotVector(outKnots, knotVector, call.times)
       /\ Len(outPoints) = Len(outKnots) - (degree + call.times) - 1

\* C28: ElevateDegree reads and writes no entry outside its buffers, for
\* every valid clamped curve and every t >= 1.
C28_ElevateWithinBuffers == ElevateCalled => ~ub

(***************************************************************************)
(* C24: what ReduceDegree returns with true                                *)
(***************************************************************************)
ReducedCalled == call.op = "ReduceDegree" /\ status = "ok" /\ ret

\* C24: when ReduceDegree returns true, its output is a curve of degree
\* p - 1: U' is nondecreasing, begins with p copies of U[0], ends with p
\* copies of U[m], and |U'| = |P'| + p.
C24_ReducedWellFormed ==
    ReducedCalled
    => /\ IsNondecreasing(outKnots)
       /\ Len(outKnots) = Len(outPoints) + degree
       /\ Len(outKnots) >= 2 * degree
       /\ \A i \in 1..degree :
             /\ outKnots[i] = knotVector[1]
             /\ outKnots[Len(outKnots) + 1 - i] = knotVector[Len(knotVector)]

\* the sizes alone: ReduceDegree leaves 2n control points and 2n + p knots
C24_ReducedSizes ==
    ReducedCalled
    => /\ Len(outPoints) = 2 * (Len(controlPoints) - 1)
       /\ Len(outKnots) = Len(outPoints) + degree

(***************************************************************************)
(* C25: the control points of the arc                                      *)
(***************************************************************************)
\* the angle every segment of the arc of the call sweeps
ArcStep == RDiv(ArcTheta(call.u, call.v), R(arc.narcs))

\* the angle at the end of segment i
ArcEndOf(i) == RAdd(call.u, RMul(R(i), ArcStep))

\* C25: CreateArc sets, for every segment i = 1..narcs, control point 2i to
\* the point of the ellipse at the end of the segment with weight 1 and
\* control point 2i - 1 to the intersection of the tangents at the ends of
\* the segment with weight cos(dtheta / 2); all 2 narcs + 1 control points
\* are assigned, the last segment included.
C25_ArcControlPoints ==
    (ArcCalled /\ arc.ret)
    => /\ Len(arcPoints) = 2 * arc.narcs + 1
       /\ arcPoints[1] = EllipsePoint(call.u)
       /\ \A i \in 1..arc.narcs :
             /\ arcPoints[2 * i + 1] = EllipsePoint(ArcEndOf(i))
             /\ arcPoints[2 * i]
                   = TangentsPoint(ArcEndOf(i - 1), ArcEndOf(i),
                                   RDiv(ArcStep, R(2)))

\* what the code assigns: the segments before the last one, in a buffer of
\* 2 narcs control points
C25_ArcAllButLast ==
    (ArcCalled /\ arc.ret)
    => /\ Len(arcPoints) = 2 * arc.narcs
       /\ arcPoints[1] = EllipsePoint(call.u)
       /\ \A i \in 1..(arc.narcs - 1) :
             /\ arcPoints[2 * i + 1] = EllipsePoint(ArcEndOf(i))
             /\ arcPoints[2 * i]
                   = TangentsPoint(ArcEndOf(i - 1), ArcEndOf(i),
                                   RDiv(ArcStep, R(2)))

(***************************************************************************)
(* C26: the samples of EquallyTessellate                                   *)
(***************************************************************************)
\* a call with empty buffers that returned
TessellateCalled ==
    /\ call.op = "EquallyTessellate"
    /\ status = "ok"

\* parameter j of interval i of the unique knots uk (i, j from 0)
SampleStated(uk, i, j) ==
    RAdd(uk[i + 1],
         RDiv(RMul(R(j), RSub(uk[i + 2], uk[i + 1])), R(intervals)))

\* C26: EquallyTessellate divides every interval between two consecutive
\* unique knots into 100 steps: sample j of interval i has the parameter
\* uniqueKv[i] + j (uniqueKv[i+1] - uniqueKv[i]) / 100, the parameters are
\* nondecreasing within [U[0], U[m]], the last sample is the end of the curve
\* at U[m], and every point is the point of the curve at its parameter.
C26_TessellationSamples ==
    TessellateCalled
    => LET uk == Unique(knotVector)
       IN  /\ Len(outKnots) = intervals * (Len(uk) - 1) + 1
           /\ Len(outPoints) = Len(outKnots)
           /\ \A i \in 0..(Len(uk) - 2), j \in 0..(intervals - 1) :
                 outKnots[intervals * i + j + 1] = SampleStated(uk, i, j)
           /\ outKnots[Len(outKnots)] = knotVector[Len(knotVector)]
           /\ IsNondecreasing(outKnots)
           /\ \A k \in 1..Len(outKnots) :
                 /\ InParamRange(knotVector, outKnots[k])
                 /\ outPoints[k] = GetPointOnCurve(degree, knotVector,
                                                   outKnots[k], controlPoints)

\* what the code leaves in empty buffers: 100 samples for every interval,
\* all with one parameter and with the point of the curve at U[0]
C26_SamplesRepeated ==
    (TessellateCalled /\ Len(outKnots) = Len(outPoints))
    => \A k \in 1..(Len(outKnots) - 1) :
          /\ outKnots[k] = outKnots[intervals * ((k - 1) \div intervals) + 1]
          /\ outPoints[k] = GetPointOnCurve(degree, knotVector,
                                            knotVector[1], controlPoints)

(***************************************************************************)
(* C27: the weight of the middle control point of the local fit            *)
(***************************************************************************)
\* the call returned true with the intersection of the rays as the middle
\* control point
LocalFitted ==
    /\ call.op = "LocalRationalQuadraticCurveApproximation"
    /\ status = "ok"
    /\ ret
    /\ call.rays = "Intersecting"
    /\ call.count >= 1

\* the sum of w_i / (1 + w_i) over the intermediate points 1..k
RECURSIVE FractionSum(_, _)
FractionSum(arcs, k) ==
    IF k = 0 THEN R(0)
    ELSE RAdd(FractionSum(arcs, k - 1),
              IF arcs[k].kind = "Arc"
              THEN RDiv(arcs[k].w, RAdd(R(1), arcs[k].w))
              ELSE R(0))

\* w = s / (1 - s) for the sum divided by the number of intermediate points
WeightStated(arcs) ==
    LET s == RDiv(FractionSum(arcs, Len(arcs)), R(Len(arcs)))
    IN  RDiv(s, RSub(R(1), s))

\* C27: LocalRationalQuadraticCurveApproximation adds w_i / (1 + w_i) for
\* every intermediate point between the start and the end index, and only
\* after all of them divides the sum s by the number of intermediate points
\* and gives the middle control point the weight s / (1 - s).
C27_WeightAveraged ==
    LocalFitted
    => /\ \A k \in 1..call.count : call.X[k].kind \in {"Arc", "Miss"}
       /\ fitPoints[Len(fitPoints)] = RaysFit(WeightStated(call.X))

\* what the code does: the first intermediate point alone gives the weight
C27_FirstPointOnly ==
    LocalFitted
    => fitPoints[Len(fitPoints)]
          = RaysFit(WeightStated(<<call.X[1]>> \o
                        Copies(call.count - 1, [kind |-> "Miss", w |-> R(0)])))

(***************************************************************************)
(* C29: the knots RemoveKnot removes                                       *)
(***************************************************************************)
\* the smaller of two integers
Least(a, b) == IF a <= b THEN a ELSE b

\* C29: RemoveKnot(p, U, P, u, r) removes copies of u only: every other
\* knot value keeps its multiplicity, the multiplicity s of u drops by at
\* most min(r, s), the output is nondecreasing and |U'| = |P'| + p + 1, for
\* every r >= 1, r > s included.
C29_RemovesOnlyTheKnot ==
    RemoveCalled
    => /\ \A i \in 1..Len(knotVector) :
             knotVector[i] # call.u
             => KnotCopies(outKnots, knotVector[i])
                   = KnotCopies(knotVector, knotVector[i])
       /\ KnotCopies(outKnots, call.u) <= KnotCopies(knotVector, call.u)
       /\ KnotCopies(knotVector, call.u) - KnotCopies(outKnots, call.u)
             <= Least(call.times, KnotCopies(knotVector, call.u))
       /\ IsNondecreasing(outKnots)
       /\ Len(outKnots) = Len(outPoints) + degree + 1

\* with r <= s the statement of C29 holds
C29_WithinMultiplicity ==
    (RemoveCalled /\ call.times <= KnotCopies(knotVector, call.u))
    => C29_RemovesOnlyTheKnot

(***************************************************************************)
(* C30: the reversed curve                                                 *)
(***************************************************************************)
\* C30: after Reverse(U, P, U', P') the output buffers hold the reversed
\* curve: P'[i] = P[n - i], U' has the length and the first knot of U and
\* the differences of U mirrored, U'[i] - U'[i-1] = U[m-i+1] - U[m-i]; and
\* Reverse applied twice gives (U, P) again.
C30_ReverseReverses ==
    /\ (call.op = "Reverse" /\ status = "ok")
       => /\ Len(outPoints) = Len(controlPoints)
          /\ \A i \in 1..Len(controlPoints) :
                outPoints[i] = controlPoints[Len(controlPoints) + 1 - i]
          /\ Len(outKnots) = Len(knotVector)
          /\ outKnots[1] = knotVector[1]
          /\ \A i \in 2..Len(knotVector) :
                RSub(outKnots[i], outKnots[i - 1])
                   = RSub(knotVector[Len(knotVector) + 2 - i],
                          knotVector[Len(knotVector) + 1 - i])
    /\ (call.op = "ReverseTwice" /\ status = "ok")
       => /\ outKnots = knotVector
          /\ outPoints = controlPoints

\* what the code does: the caller's buffers are what they were
C30_BuffersUntouched ==
    [][(call'.op \in {"Reverse", "ReverseTwice"})
           => UNCHANGED <<outKnots, outPoints>>]_vars

\* what the two callees compute in their own copies is the reversed curve
C30_CopiesReversed ==
    LET r  == ReverseByReference(knotVector, controlPoints, outKnots,
                                 outPoints)
        rr == ReverseByReference(r.U, r.P, <<>>, <<>>)
    IN  /\ r.P = Reversed(controlPoints)
        /\ Len(r.U) = Len(knotVector)
        /\ rr.U = knotVector
        /\ rr.P = controlPoints

=============================================================================
